---- MODULE Spec2Model ----
(***************************************************************************)
(* Model of the parcel-identifier query engine of kmldownloads:            *)
(*   NSW_query.py  (count -> ids -> fetch-by-ids executor, merge, cap),    *)
(*   QLD_query.py, SA_query.py, nsw_query.py  (direct fetch),              *)
(*   utils.py      (parsers, geometry translator, sanitizer).              *)
(* Python strings are sequences of one-character strings; JSON values are  *)
(* tagged records; dicts are functions over the keys that are present.     *)
(***************************************************************************)
EXTENDS Integers, Sequences, FiniteSets, TLC

VARIABLES
  prog,         \* which entry point runs: "NSW", "QLD", "SA", "nsw"
  raw_input,    \* argument raw_input (sequence of characters)
  max_records,  \* argument max_records
  pc,           \* position of the call: "start", "count", "ids", "fetch", "get", "done"
                \* (or "build", "built" when only a builder is applied)
  lotids,       \* the parser's output: lotids (NSW_query, QLD_query) or entries
  wheres,       \* the list of filter expressions being iterated (wheres / clauses)
  wi,           \* index in wheres of the expression being processed
  ids,          \* NSW_query.query: ids of the current expression
  all_arc,      \* accumulated features (all_arc["features"] / all_features)
  seen_ids,     \* NSW_query.query: seen_ids
  debug,        \* NSW_query.query: debug (diagnostic list)
  result,       \* features of the returned FeatureCollection
  raised,       \* an exception escaped to the caller
  http,         \* history: every HTTP request issued, with its outcome
  merged        \* history: all_arc["features"] when the loop ended (before the cap)

vars == <<prog, raw_input, max_records, pc, lotids, wheres, wi, ids,
          all_arc, seen_ids, debug, result, raised, http, merged>>

-----------------------------------------------------------------------------
(* Bounds of the model *)

\* longest feature list a service response carries
MaxFeats == 2
\* largest max_records argument tried
MaxCap == 2
\* longest object-id list an identifiers-only response carries
MaxIds == 2
\* number of distinct tokens of the long raw inputs (more than one chunk)
NumTokens == 101
MaxList == 3
MaxGeoms == 2
MaxToks == 2
MaxCalls == 2
MaxRange == 11
MaxQuoted == 2

-----------------------------------------------------------------------------
(* Sequences and characters *)

Min(a, b) == IF a <= b THEN a ELSE b

\* lst[:n] for n >= 0
Take(lst, n) == SubSeq(lst, 1, Min(n, Len(lst)))

RECURSIVE FoldRange(_, _, _, _, _)
FoldRange(Op(_, _), acc, s, lo, hi) ==
  IF lo > hi THEN acc
  ELSE IF lo = hi THEN Op(acc, s[lo])
  ELSE LET mid == (lo + hi) \div 2
           l == FoldRange(Op, acc, s, lo, mid)
       IN IF l = l THEN FoldRange(Op, l, s, mid + 1, hi) ELSE l

\* left-to-right iteration over a sequence ("for c in s: acc = Op(acc, c)")
FoldLeft(Op(_, _), acc, s) == FoldRange(Op, acc, s, 1, Len(s))

CatStep(acc, s) == acc \o s
\* "".join(parts)
Concat(parts) == FoldLeft(CatStep, <<>>, parts)

\* sep.join(parts)
Join(parts, sep) ==
  Concat([i \in 1..Len(parts) |-> IF i = 1 THEN parts[i] ELSE sep \o parts[i]])

Digits == {"0", "1", "2", "3", "4", "5", "6", "7", "8", "9"}
UpperSeq == <<"A", "B", "C", "D", "E", "F", "G", "H", "I", "J", "K", "L", "M",
              "N", "O", "P", "Q", "R", "S", "T", "U", "V", "W", "X", "Y", "Z">>
LowerSeq == <<"a", "b", "c", "d", "e", "f", "g", "h", "i", "j", "k", "l", "m",
              "n", "o", "p", "q", "r", "s", "t", "u", "v", "w", "x", "y", "z">>
UpperLetters == {UpperSeq[i] : i \in 1..26}
LowerLetters == {LowerSeq[i] : i \in 1..26}
\* regex \s (the ASCII part)
Whitespace == {" ", "\n", "\t", "\r"}

\* str.upper() on one character
UpChar(c) ==
  IF c \in LowerLetters THEN UpperSeq[CHOOSE i \in 1..26 : LowerSeq[i] = c] ELSE c
\* str.upper()
Upper(s) == [i \in 1..Len(s) |-> UpChar(s[i])]

IsNotSpace(c) == c \notin Whitespace
\* re.sub(r"\s+", "", s)
RemoveSpace(s) == SelectSeq(s, IsNotSpace)

\* str.strip()
Strip(s) ==
  LET keep == {i \in 1..Len(s) : s[i] \notin Whitespace}
  IN IF keep = {} THEN <<>>
     ELSE LET lo == CHOOSE i \in keep : \A j \in keep : i <= j
              hi == CHOOSE i \in keep : \A j \in keep : j <= i
          IN SubSeq(s, lo, hi)

\* s.replace(" ", "")
RemoveBlanks(s) == LET NotBlank(c) == c # " " IN SelectSeq(s, NotBlank)

\* sub in s
Contains(s, sub) ==
  \E i \in 1..(Len(s) - Len(sub) + 1) : SubSeq(s, i, i + Len(sub) - 1) = sub

\* s.startswith(pre)
StartsWith(s, pre) == Len(s) >= Len(pre) /\ SubSeq(s, 1, Len(pre)) = pre

\* str.split(sep) for a one-character separator: always at least one part
Split(s, sep) ==
  LET Step(acc, c) ==
        IF c = sep THEN [parts |-> Append(acc.parts, acc.cur), cur |-> <<>>]
        ELSE [parts |-> acc.parts, cur |-> Append(acc.cur, c)]
      end == FoldLeft(Step, [parts |-> <<>>, cur |-> <<>>], s)
  IN Append(end.parts, end.cur)

\* str(n) for a natural number
RECURSIVE DecStr(_)
DecStr(n) ==
  LET d == <<"0", "1", "2", "3", "4", "5", "6", "7", "8", "9">>
  IN IF n < 10 THEN <<d[n + 1]>> ELSE Append(DecStr(n \div 10), d[(n % 10) + 1])

\* "for x in lst: if x not in seen: out.append(x); seen.add(x)"
DedupStep(out, x) ==
  IF \E i \in 1..Len(out) : out[i] = x THEN out ELSE Append(out, x)
DedupKeepFirst(lst) == FoldLeft(DedupStep, <<>>, lst)

-----------------------------------------------------------------------------
(* JSON values and dicts *)

None == [null |-> TRUE]
IntV(n) == [int |-> n]
StrV(s) == [str |-> s]
IsStr(v) == "str" \in DOMAIN v
IsInt(v) == "int" \in DOMAIN v
\* the empty dict {}
EmptyDict == <<>>

\* d.get(k) (None when the key is absent)
Get(d, k) == IF k \in DOMAIN d THEN d[k] ELSE None
\* d[k] = v
Put(d, k, v) == [x \in (DOMAIN d) \cup {k} |-> IF x = k THEN v ELSE d[x]]
\* d.pop(k, None) for every k of ks
Drop(d, ks) == [x \in (DOMAIN d) \ ks |-> d[x]]
\* truth value of a JSON scalar ("if v:")
Truthy(v) ==
  IF IsStr(v) THEN v.str # <<>> ELSE IF IsInt(v) THEN v.int # 0 ELSE FALSE
\* str(v) of a JSON scalar that is not None
PyStr(v) == IF IsStr(v) THEN v.str ELSE DecStr(v.int)

-----------------------------------------------------------------------------
(* NSW_query.py: parsing and filter expressions *)

NSW_IN_CHUNK == 100

\* fault: _chunk without its last, shorter group
chunk_DropsTail(lst, n) ==
  [k \in 1..(Len(lst) \div n) |-> SubSeq(lst, (k - 1) * n + 1, k * n)]

\* fault: _chunk with groups of n + 1
chunk_OneMore(lst, n) ==
  [k \in 1..((Len(lst) + n) \div (n + 1)) |->
     SubSeq(lst, (k - 1) * (n + 1) + 1, Min(k * (n + 1), Len(lst)))]

\* list(_chunk(lst, n)): the groups (the same function in all four query modules)
chunk(lst, n) ==
  [k \in 1..((Len(lst) + n - 1) \div n) |->
     SubSeq(lst, (k - 1) * n + 1, Min(k * n, Len(lst)))]

\* re.sub(r"\s+(and|&)\s+", ";", s, flags=re.IGNORECASE): a left-to-right
\* scan; pend holds the characters of a match that is not yet complete
JoinerStep(acc, c) ==
  LET text(out) == IF c \in Whitespace
                   THEN [out |-> out, pend |-> <<c>>, st |-> "ws"]
                   ELSE [out |-> Append(out, c), pend |-> <<>>, st |-> "text"]
      more(st) == [out |-> acc.out, pend |-> Append(acc.pend, c), st |-> st]
      giveup == text(acc.out \o acc.pend)
  IN CASE acc.st = "text" -> text(acc.out)
       [] acc.st = "ws" ->
            IF c \in Whitespace THEN more("ws")
            ELSE IF UpChar(c) = "A" THEN more("a")
            ELSE IF c = "&" THEN more("word")
            ELSE giveup
       [] acc.st = "a" -> IF UpChar(c) = "N" THEN more("an") ELSE giveup
       [] acc.st = "an" -> IF UpChar(c) = "D" THEN more("word") ELSE giveup
       [] acc.st = "word" ->
            IF c \in Whitespace THEN [out |-> acc.out, pend |-> <<>>, st |-> "tail"]
            ELSE giveup
       [] acc.st = "tail" ->
            IF c \in Whitespace THEN acc ELSE text(Append(acc.out, ";"))
SubJoiners(s) ==
  LET end == FoldLeft(JoinerStep, [out |-> <<>>, pend |-> <<>>, st |-> "text"], s)
  IN IF end.st = "tail" THEN Append(end.out, ";") ELSE end.out \o end.pend

\* re.sub(r"[\n,;]+", ";", s)
SubSeparators(s) ==
  LET Step(acc, c) ==
        IF c \in {"\n", ",", ";"}
        THEN [out |-> IF acc.run THEN acc.out ELSE Append(acc.out, ";"), run |-> TRUE]
        ELSE [out |-> Append(acc.out, c), run |-> FALSE]
  IN FoldLeft(Step, [out |-> <<>>, run |-> FALSE], s).out

IsNonEmpty(t) == t # <<>>
IsAlnumSlash(c) == c \in UpperLetters \cup Digits \cup {"/"}

\* re.match(r"^([A-Z0-9]+)(DP|SP|CP|RP|BUP)(\d+)$", t): the three groups, or
\* <<>> when t does not match
CompactMatch(t) ==
  LET n == Len(t)
      nondig == {i \in 1..n : t[i] \notin Digits}
      \* last character that is not a digit: the plan prefix ends here
      p == IF nondig = {} THEN 0 ELSE CHOOSE i \in nondig : \A j \in nondig : j <= i
      prefixes == <<<<"D", "P">>, <<"S", "P">>, <<"C", "P">>, <<"R", "P">>,
                    <<"B", "U", "P">>>>
      fits(k) == /\ p - Len(prefixes[k]) >= 1
                 /\ SubSeq(t, p - Len(prefixes[k]) + 1, p) = prefixes[k]
                 /\ \A i \in 1..(p - Len(prefixes[k])) :
                       t[i] \in UpperLetters \cup Digits
      ok == {k \in 1..5 : p < n /\ fits(k)}
  IN IF ok = {} THEN <<>>
     ELSE LET k == CHOOSE k \in ok : \A j \in ok : k <= j
          IN <<SubSeq(t, 1, p - Len(prefixes[k])), prefixes[k], SubSeq(t, p + 1, n)>>

\* body of the loop of _preclean for one token: the canonical string ("" = skipped)
preclean_token(tok) ==
  LET t == SelectSeq(Upper(RemoveSpace(tok)), IsAlnumSlash)
      parts == Split(t, "/")
      m == CompactMatch(t)
  IN IF t = <<>> THEN <<>>
     ELSE IF "/" \in {t[i] : i \in 1..Len(t)}
     THEN IF Len(parts) = 2 THEN parts[1] \o <<"/", "/">> \o parts[2]
          ELSE IF Len(parts) = 3
          THEN IF parts[2] = <<>> THEN parts[1] \o <<"/", "/">> \o parts[3]
               ELSE parts[1] \o <<"/">> \o parts[2] \o <<"/">> \o parts[3]
          ELSE t
     ELSE IF m # <<>> THEN m[1] \o <<"/", "/">> \o m[2] \o m[3]
     ELSE t

\* _preclean(raw)
preclean(raw) ==
  IF raw = <<>> THEN <<>>
  ELSE LET s == SubSeparators(SubJoiners(Strip(raw)))
           pieces == Split(s, ";")
           toks == SelectSeq([i \in 1..Len(pieces) |-> Strip(pieces[i])], IsNonEmpty)
           canon == [i \in 1..Len(toks) |-> preclean_token(toks[i])]
       IN DedupKeepFirst(SelectSeq(canon, IsNonEmpty))

Quote(x) == <<"'">> \o x \o <<"'">>
\* the text "lotidstring IN ("
NSW_IN_HEAD ==
  <<"l", "o", "t", "i", "d", "s", "t", "r", "i", "n", "g", " ", "I", "N", " ", "(">>
\* the sentinel expression "1=2"
SENTINEL == <<"1", "=", "2">>

\* fault: _build_where without "or ['1=2']"
build_where_NoSentinel(ids_) ==
  LET groups == chunk(ids_, NSW_IN_CHUNK)
  IN [g \in 1..Len(groups) |->
        NSW_IN_HEAD
        \o Join([i \in 1..Len(groups[g]) |-> Quote(groups[g][i])], <<",">>)
        \o <<")">>]

\* _build_where(lotids)
build_where(ids_) ==
  LET groups == chunk(ids_, NSW_IN_CHUNK)
      clauses == [g \in 1..Len(groups) |->
                    NSW_IN_HEAD
                    \o Join([i \in 1..Len(groups[g]) |-> Quote(groups[g][i])], <<",">>)
                    \o <<")">>]
  IN IF clauses = <<>> THEN <<SENTINEL>> ELSE clauses

-----------------------------------------------------------------------------
(* utils.py: parsing helpers *)

IsAlnum(c) == c \in UpperLetters \cup Digits
IsAlnumDash(c) == c \in UpperLetters \cup Digits \cup {"-"}
Letters == UpperLetters \cup LowerLetters
AllIn(s, S) == \A i \in 1..Len(s) : s[i] \in S

\* normalize_plan(plan)
normalize_plan(plan) ==
  IF plan = <<>> THEN <<>> ELSE SelectSeq(Upper(RemoveBlanks(plan)), IsAlnum)

\* normalize_lot(lot)
normalize_lot(lot) ==
  IF lot = <<>> THEN <<>> ELSE SelectSeq(Strip(Upper(lot)), IsAlnumDash)

\* int(s) for a string of digits
IntOf(s) ==
  LET Step(n, c) == 10 * n + (CHOOSE d \in 0..9 : DecStr(d) = <<c>>)
  IN FoldLeft(Step, 0, s)

\* fault: range(a, b + 1), which is empty when a > b
RangeStrs_Ascending(a, b) == [i \in 1..(b - a + 1) |-> DecStr(a + i - 1)]

\* [str(n) for n in range(a, b + step, step)] with step = 1 if a <= b else -1
RangeStrs(a, b) ==
  IF a <= b THEN [i \in 1..(b - a + 1) |-> DecStr(a + i - 1)]
  ELSE [i \in 1..(a - b + 1) |-> DecStr(a - i + 1)]

\* re.split(r"[,\s]+", s): the parts between the runs of commas and whitespace
SplitCommaSpace(s) ==
  LET Step(acc, c) ==
        IF c \in Whitespace \cup {","}
        THEN IF acc.run THEN acc
             ELSE [parts |-> Append(acc.parts, acc.cur), cur |-> <<>>, run |-> TRUE]
        ELSE [parts |-> acc.parts, cur |-> Append(acc.cur, c), run |-> FALSE]
      end == FoldLeft(Step, [parts |-> <<>>, cur |-> <<>>, run |-> FALSE], s)
  IN Append(end.parts, end.cur)

\* re.fullmatch(r"(\d+)\-(\d+)", token)
IsRange(token) ==
  LET parts == Split(token, "-")
  IN /\ Len(parts) = 2
     /\ parts[1] # <<>> /\ AllIn(parts[1], Digits)
     /\ parts[2] # <<>> /\ AllIn(parts[2], Digits)

\* the lots one token of expand_lot_ranges stands for
ExpandToken(token) ==
  IF token = <<>> THEN <<>>
  ELSE IF IsRange(token)
  THEN RangeStrs(IntOf(Split(token, "-")[1]), IntOf(Split(token, "-")[2]))
  ELSE <<token>>

\* expand_lot_ranges(lot_str)
expand_lot_ranges(lot_str) ==
  LET Step(lots, token) == lots \o ExpandToken(token)
  IN FoldLeft(Step, <<>>, SplitCommaSpace(Strip(lot_str)))

\* re.split(r"[\n;,]+", raw)
SplitPieces(raw) ==
  LET Step(acc, c) ==
        IF c \in {"\n", ";", ","}
        THEN IF acc.run THEN acc
             ELSE [parts |-> Append(acc.parts, acc.cur), cur |-> <<>>, run |-> TRUE]
        ELSE [parts |-> acc.parts, cur |-> Append(acc.cur, c), run |-> FALSE]
      end == FoldLeft(Step, [parts |-> <<>>, cur |-> <<>>, run |-> FALSE], raw)
  IN Append(end.parts, end.cur)

\* p matches [A-Z]+\s*\d+ (case-insensitive)
IsPlanText(p) ==
  \E i \in 1..Len(p), j \in 1..Len(p) :
    /\ i < j
    /\ \A k \in 1..i : p[k] \in Letters
    /\ \A k \in (i + 1)..(j - 1) : p[k] \in Whitespace
    /\ \A k \in j..Len(p) : p[k] \in Digits

\* g matches [A-Z0-9\-]+ (case-insensitive)
IsLotText(g) == g # <<>> /\ AllIn(g, Letters \cup Digits \cup {"-"})

\* s matches \s*([A-Z0-9\-]+)\s*/\s*([A-Z0-9\-]+)\s*//\s*([A-Z]+\s*\d+)\s*
MatchLotSectionPlan(parts) ==
  /\ Len(parts) = 4
  /\ parts[3] = <<>>
  /\ IsLotText(Strip(parts[1]))
  /\ IsLotText(Strip(parts[2]))
  /\ IsPlanText(Strip(parts[4]))

\* s matches \s*([A-Z0-9,\-\s]+)\s*//\s*([A-Z]+\s*\d+)\s*
MatchLotPlan(parts) ==
  /\ Len(parts) = 3
  /\ parts[2] = <<>>
  /\ parts[1] # <<>>
  /\ AllIn(parts[1], Letters \cup Digits \cup {",", "-"} \cup Whitespace)
  /\ IsPlanText(Strip(parts[3]))

\* s matches \s*(\d{1,5})\s*/\s*(\d{1,6})\s*
MatchVolumeFolio(parts) ==
  /\ Len(parts) = 2
  /\ Len(Strip(parts[1])) \in 1..5 /\ AllIn(Strip(parts[1]), Digits)
  /\ Len(Strip(parts[2])) \in 1..6 /\ AllIn(Strip(parts[2]), Digits)

\* t matches \d+[a-z]{1,3}\d+ (case-insensitive)
IsLotPlanText(t) ==
  \E i \in 1..Len(t), j \in 1..Len(t) :
    /\ i < j /\ j - i \in 2..4
    /\ \A k \in 1..i : t[k] \in Digits
    /\ \A k \in (i + 1)..(j - 1) : t[k] \in Letters
    /\ \A k \in j..Len(t) : t[k] \in Digits

\* s matches \s*([A-Z0-9\-]+)\s*,\s*([A-Z]+\s*\d+)\s*
MatchLotCommaPlan(parts) ==
  /\ Len(parts) = 2
  /\ IsLotText(Strip(parts[1]))
  /\ IsPlanText(Strip(parts[2]))

\* re.sub(r"\s+", " ", s)
CollapseSpace(s) ==
  LET Step(acc, c) ==
        IF c \in Whitespace
        THEN [out |-> IF acc.run THEN acc.out ELSE Append(acc.out, " "), run |-> TRUE]
        ELSE [out |-> Append(acc.out, c), run |-> FALSE]
  IN FoldLeft(Step, [out |-> <<>>, run |-> FALSE], s).out

\* the entries of one piece that matched LOT//PLAN (an entry is a dict; its
\* "section" is None or a string value, its other fields are strings)
LotPlanEntries(lots, plan) ==
  [i \in 1..Len(lots) |->
     [kind |-> "lot_plan", lot |-> lots[i], section |-> None, plan |-> plan]]

\* body of the loop of parse_bulk_entries for s = piece.strip(); by is s.split("/")
\* and up is s.upper()
PieceEntries(s, by, up) ==
  IF s = <<>> THEN <<>>
  ELSE IF MatchLotSectionPlan(by)
  THEN <<[kind |-> "lot_section_plan", lot |-> normalize_lot(Strip(by[1])),
          section |-> StrV(normalize_lot(Strip(by[2]))),
          plan |-> normalize_plan(Strip(by[4]))]>>
  ELSE IF MatchLotPlan(by)
  THEN LotPlanEntries(expand_lot_ranges(normalize_lot(by[1])),
                      normalize_plan(Strip(by[3])))
  ELSE IF MatchVolumeFolio(by)
  THEN <<[kind |-> "volume_folio", volume |-> Strip(by[1]), folio |-> Strip(by[2])]>>
  ELSE IF IsLotPlanText(s)
  THEN <<[kind |-> "lotplan", lotplan |-> up]>>
  ELSE IF StartsWith(up, <<"L", "O", "T", " ">>) /\ Contains(up, <<" ", "D", "P">>)
  THEN <<[kind |-> "lotidstring", lotidstring |-> CollapseSpace(Strip(up))]>>
  ELSE IF MatchLotCommaPlan(Split(s, ","))
  THEN <<[kind |-> "lot_plan", lot |-> normalize_lot(Strip(Split(s, ",")[1])),
          section |-> None, plan |-> normalize_plan(Strip(Split(s, ",")[2]))]>>
  ELSE <<[kind |-> "unknown", raw |-> s]>>

\* parse_bulk_entries(raw)
parse_bulk_entries(raw) ==
  LET Step(entries, piece) ==
        entries \o PieceEntries(Strip(piece), Split(Strip(piece), "/"),
                                Upper(Strip(piece)))
  IN FoldLeft(Step, <<>>, SplitPieces(raw))

-----------------------------------------------------------------------------
(* QLD_query.py: parsing and filter expressions *)

QLD_IN_CHUNK == 100

\* body of the first loop of _parse_lotidstrings: the values one token adds
QLD_token_values(t) ==
  IF Strip(t) = <<>> THEN <<>>
  ELSE <<SelectSeq(Upper(RemoveSpace(Strip(t))), IsAlnum)>>

\* _parse_lotidstrings(raw)
parse_lotidstrings(raw) ==
  LET Step(vals, t) == vals \o QLD_token_values(t)
  IN IF raw = <<>> THEN <<>>
     ELSE DedupKeepFirst(FoldLeft(Step, <<>>, SplitPieces(raw)))

\* the text "UPPER(lotidstring) IN ("
UPPER_IN_HEAD ==
  <<"U", "P", "P", "E", "R", "(", "l", "o", "t", "i", "d", "s", "t", "r",
    "i", "n", "g", ")", " ", "I", "N", " ", "(">>
\* f"UPPER('{lp}')"
QLD_term(lp) == <<"U", "P", "P", "E", "R", "(", "'">> \o lp \o <<"'", ")">>

\* build_where_from_lotidstrings(lotids)
build_where_from_lotidstrings(ids_) ==
  LET groups == chunk(ids_, QLD_IN_CHUNK)
      clauses == [g \in 1..Len(groups) |->
                    UPPER_IN_HEAD
                    \o Join([i \in 1..Len(groups[g]) |-> QLD_term(groups[g][i])], <<",">>)
                    \o <<")">>]
  IN IF clauses = <<>> THEN <<SENTINEL>> ELSE clauses

-----------------------------------------------------------------------------
(* SA_query.py: filter expressions *)

SA_PLAN_CHUNK == 80
SA_FOLIO_CHUNK == 100

\* f"(UPPER(plan)=UPPER('{plan}') AND UPPER(parcel)=UPPER('{lot}'))"
SA_plan_term(plan, lot) ==
  <<"(", "U", "P", "P", "E", "R", "(", "p", "l", "a", "n", ")", "=", "U", "P", "P", "E", "R", "(", "'">> \o plan
  \o <<"'", ")", " ", "A", "N", "D", " ", "U", "P", "P", "E", "R", "(", "p", "a", "r", "c", "e", "l", ")", "=", "U", "P", "P", "E", "R", "(", "'">>
  \o lot \o <<"'", ")", ")">>

\* f"(volume='{e['volume']}' AND folio='{e['folio']}')"
SA_folio_term(volume, folio) ==
  <<"(", "v", "o", "l", "u", "m", "e", "=", "'">> \o volume
  \o <<"'", " ", "A", "N", "D", " ", "f", "o", "l", "i", "o", "=", "'">> \o folio \o <<"'", ")">>

IsPlanEntry(e) == e.kind \in {"lot_plan", "lot_section_plan"}
IsFolioEntry(e) == e.kind = "volume_folio"

\* the terms collected by the loop over entries
SA_plan_terms(entries) ==
  LET es == SelectSeq(entries, IsPlanEntry)
  IN [i \in 1..Len(es) |-> SA_plan_term(normalize_plan(es[i].plan), es[i].lot)]
SA_folio_terms(entries) ==
  LET es == SelectSeq(entries, IsFolioEntry)
  IN [i \in 1..Len(es) |-> SA_folio_term(es[i].volume, es[i].folio)]

\* [" OR ".join(group) for group in _chunk(terms, n)]
OrClauses(terms, n) ==
  LET groups == chunk(terms, n)
  IN [g \in 1..Len(groups) |-> Join(groups[g], <<" ", "O", "R", " ">>)]

\* build_where(entries) of SA_query.py
SA_build_where(entries) ==
  LET clauses == OrClauses(SA_plan_terms(entries), SA_PLAN_CHUNK)
                 \o OrClauses(SA_folio_terms(entries), SA_FOLIO_CHUNK)
  IN IF clauses = <<>> THEN <<SENTINEL>> ELSE clauses

-----------------------------------------------------------------------------
(* nsw_query.py: pre-clean and filter expressions *)

nsw_IN_CHUNK == 150

\* s.replace(",", ";").replace("\n", ";").replace("\r", ";")
ToSemicolons(s) ==
  [i \in 1..Len(s) |-> IF s[i] \in {",", "\n", "\r"} THEN ";" ELSE s[i]]

\* re.sub(r";{2,}", ";", s)
CollapseSemicolons(s) ==
  LET Step(acc, c) ==
        IF c = ";" /\ acc # <<>> /\ acc[Len(acc)] = ";" THEN acc ELSE Append(acc, c)
  IN FoldLeft(Step, <<>>, s)

\* _preclean_raw(raw)
preclean_raw(raw) ==
  IF raw = <<>> THEN <<>>
  ELSE CollapseSemicolons(ToSemicolons(SubJoiners(Strip(raw))))

\* s.replace("'", "''")
EscapeQuotes(s) ==
  Concat([i \in 1..Len(s) |-> IF s[i] = "'" THEN <<"'", "'">> ELSE <<s[i]>>])

\* the characters in code-point order, for the comparison of strings
CharOrder ==
  <<"\t", "\n", "\r", " ", "&", "'", "(", ")", ",", "-", "/">>
  \o <<"0", "1", "2", "3", "4", "5", "6", "7", "8", "9", ";", "=">>
  \o UpperSeq \o <<"_">> \o LowerSeq
CodeOf ==
  [c \in {CharOrder[i] : i \in 1..Len(CharOrder)} |->
     CHOOSE i \in 1..Len(CharOrder) : CharOrder[i] = c]
Code(c) == CodeOf[c]

\* a < b for two strings: decided at the first position where they differ
StrLess(a, b) ==
  LET D == {j \in 1..Min(Len(a), Len(b)) : a[j] # b[j]}
  IN IF D = {} THEN Len(a) < Len(b)
     ELSE LET k == CHOOSE j \in D : \A i \in D : j <= i
          IN Code(a[k]) < Code(b[k])

\* sorted(set(lst)) for a list of strings: each distinct string is inserted
\* after the strings that are less than it
SortStep(acc, x) ==
  LET k == Cardinality({i \in 1..Len(acc) : StrLess(acc[i], x)})
  IN SubSeq(acc, 1, k) \o <<x>> \o SubSeq(acc, k + 1, Len(acc))
SortedSet(lst) == FoldLeft(SortStep, <<>>, DedupKeepFirst(lst))

\* body of the loop of _build_where_lotid: the lotidstrings one entry adds
nsw_entry_lotids(e) ==
  IF e.kind = "lotidstring" THEN <<EscapeQuotes(Upper(e.lotidstring))>>
  ELSE IF e.kind \in {"lot_plan", "lot_section_plan"}
  THEN IF Truthy(e.section)
       THEN <<EscapeQuotes(Upper(e.lot) \o <<"/">> \o Upper(e.section.str) \o <<"/">>
                           \o Upper(normalize_plan(e.plan)))>>
       ELSE <<EscapeQuotes(Upper(e.lot) \o <<"/", "/">>
                           \o Upper(normalize_plan(e.plan)))>>
  ELSE <<>>

\* _build_where_lotid(entries)
build_where_lotid(entries) ==
  LET Step(acc, e) == acc \o nsw_entry_lotids(e)
      groups == chunk(SortedSet(FoldLeft(Step, <<>>, entries)), nsw_IN_CHUNK)
  IN IF groups = <<>> THEN <<SENTINEL>>
     ELSE [g \in 1..Len(groups) |->
             UPPER_IN_HEAD
             \o Join([i \in 1..Len(groups[g]) |-> Quote(groups[g][i])], <<",", " ">>)
             \o <<")">>]

-----------------------------------------------------------------------------
(* utils.py: ArcGIS JSON -> GeoJSON converter *)

\* fault: the empty rings and paths are not filtered out
NonEmptyOnes_All(lst) == lst

\* [p for p in lst if p]
NonEmptyOnes(lst) == SelectSeq(lst, IsNonEmpty)

\* _arcgis_geom_to_geojson(geom)
arcgis_geom_to_geojson(geom) ==
  IF geom = None \/ geom = EmptyDict THEN None
  ELSE IF {"x", "y"} \subseteq DOMAIN geom
  THEN [type |-> "Point", coordinates |-> <<geom.x, geom.y>>]
  ELSE IF "points" \in DOMAIN geom
  THEN IF geom.points = <<>> THEN None
       ELSE IF Len(geom.points) = 1
       THEN [type |-> "Point", coordinates |-> geom.points[1]]
       ELSE [type |-> "MultiPoint", coordinates |-> geom.points]
  ELSE IF "paths" \in DOMAIN geom
  THEN LET paths == NonEmptyOnes(geom.paths)
       IN IF paths = <<>> THEN None
          ELSE IF Len(paths) = 1
          THEN [type |-> "LineString", coordinates |-> paths[1]]
          ELSE [type |-> "MultiLineString", coordinates |-> paths]
  ELSE IF "rings" \in DOMAIN geom
  THEN LET rings == NonEmptyOnes(geom.rings)
       IN IF rings = <<>> THEN None
          ELSE IF Len(rings) = 1
          THEN [type |-> "Polygon", coordinates |-> <<rings[1]>>]
          ELSE [type |-> "MultiPolygon",
                coordinates |-> [i \in 1..Len(rings) |-> << <<rings[i]>> >>]]
  ELSE None

\* fault: arcgis_to_geojson without "if geom is None: continue"
arcgis_to_geojson_KeepsNull(feats) ==
  [i \in 1..Len(feats) |->
     [type |-> "Feature",
      properties |-> IF feats[i].attributes = None THEN EmptyDict
                     ELSE feats[i].attributes,
      geometry |-> arcgis_geom_to_geojson(
                     IF feats[i].geometry = None THEN EmptyDict
                     ELSE feats[i].geometry)]]

\* arcgis_to_geojson(fc_arcgis), on the feature lists
arcgis_to_geojson(feats) ==
  LET Step(out, f) ==
        LET props == IF f.attributes = None THEN EmptyDict ELSE f.attributes
            geom == arcgis_geom_to_geojson(
                      IF f.geometry = None THEN EmptyDict ELSE f.geometry)
        IN IF geom = None THEN out
           ELSE Append(out, [type |-> "Feature", properties |-> props,
                             geometry |-> geom])
  IN FoldLeft(Step, <<>>, feats)

-----------------------------------------------------------------------------
(* utils.py: NSW properties sanitizer *)

\* str.split() (on runs of whitespace, no empty parts)
SplitWords(s) ==
  LET Step(acc, c) ==
        IF c \in Whitespace
        THEN [parts |-> IF acc.cur = <<>> THEN acc.parts
                        ELSE Append(acc.parts, acc.cur),
              cur |-> <<>>]
        ELSE [parts |-> acc.parts, cur |-> Append(acc.cur, c)]
      end == FoldLeft(Step, [parts |-> <<>>, cur |-> <<>>], s)
  IN IF end.cur = <<>> THEN end.parts ELSE Append(end.parts, end.cur)

\* "if k in p and p[k] is not None: p[k] = str(p[k]).strip()"
ForceStr(p, k) ==
  IF k \in DOMAIN p /\ p[k] # None THEN Put(p, k, StrV(Strip(PyStr(p[k])))) ELSE p

\* "if p.get('planlabel'): p['planlabel'] = p['planlabel'].replace(' ', '').upper()"
NormalizePlanLabel(p) ==
  IF Truthy(Get(p, "planlabel"))
  THEN Put(p, "planlabel", StrV(Upper(RemoveBlanks(p["planlabel"].str))))
  ELSE p

\* p.get(k, "")
GetOrEmpty(p, k) == IF k \in DOMAIN p THEN p[k] ELSE StrV(<<>>)

\* fault: the section is left out of the canonical text
CanonFromParts_NoSection(canon, lot, sec, plan) ==
  IF Truthy(lot) /\ Truthy(plan)
  THEN StrV(lot.str \o <<"/", "/">> \o plan.str)
  ELSE canon

\* lines 173-177: canon from lot, section and plan
CanonFromParts(canon, lot, sec, plan) ==
  IF Truthy(lot) /\ Truthy(plan)
  THEN IF Truthy(sec)
       THEN StrV(lot.str \o <<"/">> \o sec.str \o <<"/">> \o plan.str)
       ELSE StrV(lot.str \o <<"/", "/">> \o plan.str)
  ELSE canon

\* lines 179-185: canon from a "LOT n DPxxx" lotidstring; up is canon.upper()
CanonFromLotid(canon, up, parts) ==
  IF /\ StartsWith(up, <<"L", "O", "T", " ">>)
     /\ Contains(up, <<" ", "D", "P">>)
     /\ Len(parts) >= 3
  THEN StrV(parts[2] \o <<"/", "/">> \o RemoveBlanks(parts[Len(parts)]))
  ELSE canon

\* lines 171-185
Canon(p, canon) ==
  IF ~Truthy(canon)
  THEN CanonFromParts(canon, GetOrEmpty(p, "lotnumber"),
                      GetOrEmpty(p, "sectionnumber"), GetOrEmpty(p, "planlabel"))
  ELSE CanonFromLotid(canon, Upper(canon.str), SplitWords(Upper(canon.str)))

\* lines 187-189
SetCanon(p, canon) ==
  IF Truthy(canon) THEN Put(Put(p, "lotidstring", canon), "label", canon) ELSE p

Labelled(p) == SetCanon(p, Canon(p, Get(p, "lotidstring")))

\* the body of the loop of sanitize_nsw_props for the properties p of one feature
sanitize_props(p) ==
  Drop(Labelled(NormalizePlanLabel(
         ForceStr(ForceStr(ForceStr(ForceStr(p, "lotnumber"), "sectionnumber"),
                           "planlabel"), "lotidstring"))),
       {"OBJECTID", "Shape_Area", "Shape_Length"})

\* sanitize_nsw_props(geojson_fc), on the feature lists
sanitize_nsw_props(feats) ==
  [i \in 1..Len(feats) |->
     [type |-> feats[i].type,
      properties |-> sanitize_props(feats[i].properties),
      geometry |-> feats[i].geometry]]
-----------------------------------------------------------------------------
(* The calls that are tried, and what the services may answer *)

SeqsUpTo(S, n) == UNION {[1..k -> S] : k \in 0..n}

\* "1;2;...;n": n distinct tokens
LongRaw(n) == Join([i \in 1..n |-> DecStr(i)], <<";">>)

RawEmpty == <<>>
\* separators and punctuation only
RawJunk == <<" ", "-", ",", " ", "\n">>
RawOne == <<"1", "3", "/", "/", "D", "P", "1", "2">>
\* an SA plan/parcel identifier and a volume/folio
RawPlanAndFolio == <<"1", "/", "/", "D", "1", ";", "5", "1", "0", "0", "/", "1", "2">>
\* "1-151//DP1": a lot range longer than every chunk size
RawRange == <<"1", "-", "1", "5", "1", "/", "/", "D", "P", "1">>
RawInputs ==
  {RawEmpty, RawJunk, RawOne, RawPlanAndFolio, RawRange, LongRaw(NumTokens)}

Errors == {"http4xx", "http5xx", "timeout"}
\* the failures the design calls transient
Transient == {"http5xx", "timeout"}

Ring1 == << <<0, 0>>, <<1, 0>>, <<1, 1>>, <<0, 0>> >>
Poly1 == [rings |-> <<Ring1>>]
Name(c) == StrV(<<c>>)
\* provider records of the NSW layer (f=json): two records with object id 1,
\* two with object id 2 (one with shape area and length, one without
\* geometry), one keyed by FID instead, which carries a lotidstring
ArcA1 == [attributes |-> [OBJECTID |-> IntV(1), name |-> Name("a")], geometry |-> Poly1]
ArcB1 == [attributes |-> [OBJECTID |-> IntV(1), name |-> Name("b")], geometry |-> Poly1]
ArcA2 ==
  [attributes |-> [OBJECTID |-> IntV(2), name |-> Name("c"),
                   Shape_Area |-> IntV(4), Shape_Length |-> IntV(4)],
   geometry |-> Poly1]
ArcN2 == [attributes |-> [OBJECTID |-> IntV(2), name |-> Name("d")], geometry |-> None]
ArcF3 ==
  [attributes |-> [FID |-> IntV(3), name |-> Name("e"),
                   lotidstring |-> StrV(<<"3", "/", "/", "D", "P", "1">>)],
   geometry |-> Poly1]
ArcFeatures == {ArcA1, ArcB1, ArcA2, ArcN2, ArcF3}
\* answers to the fetch-by-ids request: without objectIdFieldName (the default
\* OBJECTID applies), or naming FID
ArcResponses ==
  {[features |-> s] : s \in SeqsUpTo(ArcFeatures, MaxFeats)}
  \cup {[features |-> s, objectIdFieldName |-> "FID"] :
          s \in SeqsUpTo({ArcF3, ArcA1}, MaxFeats)}
\* answers to the identifiers-only request
IdLists == {[i \in 1..n |-> i] : n \in {0, 1, MaxIds}}
\* answers to the count-only request
Counts == {0, MaxIds}
\* features of the layers queried with f=geojson
GeoPolygon == [type |-> "Polygon", coordinates |-> <<Ring1>>]
GeoFeatures ==
  {[type |-> "Feature", properties |-> [name |-> Name(c)], geometry |-> GeoPolygon] :
     c \in {"a", "b"}}
\* answers to a direct request with resultRecordCount = n
GeoResponses(n) == SeqsUpTo(GeoFeatures, Min(MaxFeats, n))
\* the max_records arguments tried
Caps == {1, MaxCap}

-----------------------------------------------------------------------------
(* NSW_query.query *)

\* one line of the history: the request op for expression number wi, its
\* outcome ("ok" or the error), the count it returned, the identifiers the
\* fetch had and those it asked for, and the body of an answered fetch
Request(op, outcome, cnt, had, asked, body) ==
  [op |-> op, w |-> wi, outcome |-> outcome, count |-> cnt, ids |-> had,
   asked |-> asked, body |-> body]

\* fault: the global cap keeps one record too many
CapFeatures_OffByOne(feats) ==
  IF max_records # 0 /\ Len(feats) > max_records THEN Take(feats, max_records + 1)
  ELSE feats

\* lines 124-132: the global cap, the conversion and the sanitizer
CapFeatures(feats) ==
  IF max_records # 0 /\ Len(feats) > max_records THEN Take(feats, max_records)
  ELSE feats
CapDebug(feats, dbg) ==
  IF max_records # 0 /\ Len(feats) > max_records
  THEN Append(dbg, [tag |-> "capped", max_records |-> max_records])
  ELSE dbg

\* end of one iteration of "for w in wheres" with the given features, seen ids
\* and diagnostics: the next expression, or the rest of query after the loop
NSW_Continue(feats, seen, dbg) ==
  /\ seen_ids' = seen
  /\ IF wi < Len(wheres)
     THEN /\ wi' = wi + 1
          /\ pc' = "count"
          /\ all_arc' = feats
          /\ debug' = dbg
          /\ UNCHANGED <<result, merged>>
     ELSE /\ wi' = wi
          /\ pc' = "done"
          /\ merged' = feats
          /\ all_arc' = CapFeatures(feats)
          /\ debug' = CapDebug(feats, dbg)
          /\ result' = sanitize_nsw_props(arcgis_to_geojson(all_arc'))

\* debug.append(f"NSW error on WHERE chunk: {e}"): the entry holds str(e) and
\* nothing else. The text of an HTTP status error ends with "for url: " and the
\* URL of the request, which holds the where parameter of a count or an
\* identifiers-only request (the fetch sends objectIds); a read timeout names
\* the host only.
ErrorEntry(e) ==
  [tag |-> "error", e |-> e,
   url_where |-> IF e \in {"http4xx", "http5xx"} /\ pc \in {"count", "ids"}
                 THEN wheres[wi] ELSE <<>>]

\* fault: the try statement around the loop instead of inside it, so that the
\* first failure ends the loop
NSW_Except_EndsLoop(e) ==
  /\ seen_ids' = seen_ids
  /\ wi' = wi
  /\ pc' = "done"
  /\ merged' = all_arc
  /\ all_arc' = CapFeatures(all_arc)
  /\ debug' = CapDebug(all_arc, Append(debug, ErrorEntry(e)))
  /\ result' = sanitize_nsw_props(arcgis_to_geojson(all_arc'))

\* fault: the handler starts the accumulation again
NSW_Except_Resets(e) == NSW_Continue(<<>>, {}, Append(debug, ErrorEntry(e)))

\* "except Exception as e" of the loop
NSW_Except(e) ==
  NSW_Continue(all_arc, seen_ids, Append(debug, ErrorEntry(e)))

\* lines 84-92
NSW_Start ==
  /\ prog = "NSW" /\ pc = "start"
  /\ lotids' = preclean(raw_input)
  /\ IF lotids' = <<>>
     THEN /\ debug' = Append(debug, [tag |-> "noparse"])
          /\ pc' = "done"
          /\ UNCHANGED <<wheres, wi>>
     ELSE /\ wheres' = build_where(lotids')
          /\ wi' = 1
          /\ pc' = "count"
          /\ UNCHANGED debug
  /\ UNCHANGED <<prog, raw_input, max_records, ids, all_arc, seen_ids, result,
                 raised, http, merged>>

\* _count(w) raises
NSW_CountFail(e) ==
  /\ prog = "NSW" /\ pc = "count"
  /\ http' = Append(http, Request("count", e, 0, <<>>, <<>>, None))
  /\ NSW_Except(e)
  /\ UNCHANGED <<prog, raw_input, max_records, lotids, wheres, ids, raised>>

\* fault: the count is not looked at
CountIsZero_Never(cnt) == cnt < 0

\* "if cnt == 0: continue"
CountIsZero(cnt) == cnt = 0

\* _count(w) returns cnt
NSW_CountOK(cnt) ==
  /\ prog = "NSW" /\ pc = "count"
  /\ http' = Append(http, Request("count", "ok", cnt, <<>>, <<>>, None))
  /\ LET dbg == Append(debug, [tag |-> "where", where |-> wheres[wi], count |-> cnt])
     IN IF CountIsZero(cnt)
        THEN NSW_Continue(all_arc, seen_ids, dbg)
        ELSE /\ pc' = "ids"
             /\ debug' = dbg
             /\ UNCHANGED <<wi, all_arc, seen_ids, result, merged>>
  /\ UNCHANGED <<prog, raw_input, max_records, lotids, wheres, ids, raised>>

\* _get_ids(w) raises
NSW_IdsFail(e) ==
  /\ prog = "NSW" /\ pc = "ids"
  /\ http' = Append(http, Request("ids", e, 0, <<>>, <<>>, None))
  /\ NSW_Except(e)
  /\ UNCHANGED <<prog, raw_input, max_records, lotids, wheres, ids, raised>>

\* fault: the fetch is issued whatever the identifiers-only request returned
NSW_IdsOK_AlwaysFetch(idl) ==
  /\ prog = "NSW" /\ pc = "ids"
  /\ http' = Append(http, Request("ids", "ok", 0, idl, <<>>, None))
  /\ ids' = idl
  /\ pc' = "fetch"
  /\ debug' = Append(debug, [tag |-> "ids", ids |-> idl])
  /\ UNCHANGED <<wi, all_arc, seen_ids, result, merged>>
  /\ UNCHANGED <<prog, raw_input, max_records, lotids, wheres, raised>>

\* _get_ids(w) returns idl
NSW_IdsOK(idl) ==
  /\ prog = "NSW" /\ pc = "ids"
  /\ http' = Append(http, Request("ids", "ok", 0, idl, <<>>, None))
  /\ ids' = idl
  /\ LET dbg == Append(debug, [tag |-> "ids", ids |-> idl])
     IN IF idl = <<>>
        THEN NSW_Continue(all_arc, seen_ids, Append(dbg, [tag |-> "noids"]))
        ELSE /\ pc' = "fetch"
             /\ debug' = dbg
             /\ UNCHANGED <<wi, all_arc, seen_ids, result, merged>>
  /\ UNCHANGED <<prog, raw_input, max_records, lotids, wheres, raised>>

\* _fetch_by_ids(ids, max_records) raises
NSW_FetchFail(e) ==
  /\ prog = "NSW" /\ pc = "fetch"
  /\ http' = Append(http, Request("fetch", e, 0, ids, Take(ids, max_records), None))
  /\ NSW_Except(e)
  /\ UNCHANGED <<prog, raw_input, max_records, lotids, wheres, ids, raised>>

\* "if f.get('geometry')"
HasGeometry(f) == f.geometry # None /\ f.geometry # EmptyDict

\* fault: the seen ids are not looked at
SkipFeature_OnlyNone(oid, seen) == oid = None

\* "if oid is None or oid in seen_ids: continue"
SkipFeature(oid, seen) == oid = None \/ oid \in seen
\* lines 114-119: de-dup across chunks by the object id
MergeFeatures(feats, oid_field, seen, acc_feats) ==
  LET Step(acc, f) ==
        LET oid == Get(f.attributes, oid_field)
        IN IF SkipFeature(oid, acc.seen) THEN acc
           ELSE [seen |-> acc.seen \cup {oid}, feats |-> Append(acc.feats, f)]
  IN FoldLeft(Step, [seen |-> seen, feats |-> acc_feats], feats)

\* _fetch_by_ids(ids, max_records) returns arc: lines 108-119
NSW_FetchOK(arc) ==
  /\ prog = "NSW" /\ pc = "fetch"
  /\ http' = Append(http, Request("fetch", "ok", 0, ids, Take(ids, max_records), arc))
  /\ LET feats == arc.features
         oid_field == IF "objectIdFieldName" \in DOMAIN arc
                      THEN arc.objectIdFieldName ELSE "OBJECTID"
         have_geom == Len(SelectSeq(feats, HasGeometry))
         dbg == Append(debug, [tag |-> "fetch", returned |-> Len(feats),
                               have_geom |-> have_geom])
         m == MergeFeatures(feats, oid_field, seen_ids, all_arc)
     IN NSW_Continue(m.feats, m.seen, dbg)
  /\ UNCHANGED <<prog, raw_input, max_records, lotids, wheres, ids, raised>>

NSW_Next ==
  \/ NSW_Start
  \/ \E e \in Errors : NSW_CountFail(e)
  \/ \E cnt \in Counts : NSW_CountOK(cnt)
  \/ \E e \in Errors : NSW_IdsFail(e)
  \/ \E idl \in IdLists : NSW_IdsOK(idl)
  \/ \E e \in Errors : NSW_FetchFail(e)
  \/ \E arc \in ArcResponses : NSW_FetchOK(arc)

-----------------------------------------------------------------------------
(* QLD_query.query, SA_query.query, nsw_query.query: one GET per expression *)

Direct == {"QLD", "SA", "nsw"}

\* QLD_query.query, lines 49-52
QLD_Start ==
  /\ prog = "QLD" /\ pc = "start"
  /\ lotids' = parse_lotidstrings(raw_input)
  /\ wheres' = build_where_from_lotidstrings(lotids')
  /\ wi' = 1
  /\ pc' = "get"
  /\ UNCHANGED <<prog, raw_input, max_records, ids, all_arc, seen_ids, debug,
                 result, raised, http, merged>>

\* SA_query.query, lines 37-40
SA_Start ==
  /\ prog = "SA" /\ pc = "start"
  /\ lotids' = parse_bulk_entries(raw_input)
  /\ wheres' = SA_build_where(lotids')
  /\ wi' = 1
  /\ pc' = "get"
  /\ UNCHANGED <<prog, raw_input, max_records, ids, all_arc, seen_ids, debug,
                 result, raised, http, merged>>

\* nsw_query.query, lines 79-83
nsw_Start ==
  /\ prog = "nsw" /\ pc = "start"
  /\ lotids' = parse_bulk_entries(preclean_raw(raw_input))
  /\ wheres' = build_where_lotid(lotids')
  /\ wi' = 1
  /\ pc' = "get"
  /\ UNCHANGED <<prog, raw_input, max_records, ids, all_arc, seen_ids, debug,
                 result, raised, http, merged>>

\* requests.get or r.raise_for_status() raises: nothing catches it
Direct_GetFail(e) ==
  /\ prog \in Direct /\ pc = "get"
  /\ http' = Append(http, Request("get", e, 0, <<>>, <<>>, None))
  /\ raised' = TRUE
  /\ pc' = "done"
  /\ UNCHANGED <<prog, raw_input, max_records, lotids, wheres, wi, ids, all_arc,
                 seen_ids, debug, result, merged>>

\* the request is answered with feats: all_features.extend(...), then the next
\* expression or the return
Direct_GetOK(feats) ==
  /\ prog \in Direct /\ pc = "get"
  /\ http' = Append(http, Request("get", "ok", 0, <<>>, <<>>, [features |-> feats]))
  /\ all_arc' = all_arc \o feats
  /\ IF wi < Len(wheres)
     THEN wi' = wi + 1 /\ UNCHANGED <<pc, result>>
     ELSE pc' = "done" /\ result' = all_arc' /\ UNCHANGED wi
  /\ UNCHANGED <<prog, raw_input, max_records, lotids, wheres, ids, seen_ids,
                 debug, raised, merged>>

Direct_Next ==
  \/ QLD_Start
  \/ SA_Start
  \/ nsw_Start
  \/ \E e \in Errors : Direct_GetFail(e)
  \/ \E feats \in GeoResponses(max_records) : Direct_GetOK(feats)

-----------------------------------------------------------------------------
(* The calls *)

Fresh ==
  /\ wheres = <<>>
  /\ wi = 0
  /\ ids = <<>>
  /\ all_arc = <<>>
  /\ seen_ids = {}
  /\ debug = <<>>
  /\ result = <<>>
  /\ raised = FALSE
  /\ http = <<>>
  /\ merged = <<>>

Init ==
  /\ prog \in {"NSW"} \cup Direct
  /\ raw_input \in RawInputs
  /\ max_records \in Caps
  /\ pc = "start"
  /\ lotids = <<>>
  /\ Fresh

Next == NSW_Next \/ Direct_Next

Spec == Init /\ [][Next]_vars

-----------------------------------------------------------------------------
(* The builders applied on their own to lists of identifiers *)

\* identifiers of the short lists: LOT//PLAN three times, a volume/folio, a
\* compact lot-plan and a word
TokenPool ==
  {<<"1", "/", "/", "D", "P", "1">>,
   <<"2", "/", "/", "D", "P", "1">>,
   <<"1", "0", "/", "/", "S", "P", "2">>,
   <<"5", "1", "0", "0", "/", "1", "2">>,
   <<"1", "R", "P", "9">>,
   <<"X">>}

\* the lists of length n of distinct members of S
RECURSIVE DistinctSeqs(_, _)
DistinctSeqs(S, n) ==
  IF n = 0 THEN {<<>>}
  ELSE {Append(l, x) : l \in DistinctSeqs(S, n - 1), x \in S} \cap
       {l \in [1..n -> S] : \A i, j \in 1..n : l[i] = l[j] => i = j}

ShortLists == UNION {DistinctSeqs(TokenPool, n) : n \in 0..MaxList}

\* "1//DP1", "2//DP1", ... up to n, ascending or descending
LongList(n, up) ==
  [i \in 1..n |-> DecStr(IF up THEN i ELSE n + 1 - i) \o <<"/", "/", "D", "P", "1">>]

LongLengths ==
  {NSW_IN_CHUNK - 1, NSW_IN_CHUNK, NSW_IN_CHUNK + 1,
   nsw_IN_CHUNK, nsw_IN_CHUNK + 1, 2 * NSW_IN_CHUNK, 2 * NSW_IN_CHUNK + 1}

\* "1/7", "2/7", ... up to n: volume/folio identifiers
LongFolios(n) == [i \in 1..n |-> DecStr(i) \o <<"/", "7">>]

\* lists that fill a group of volume/folio terms, alone and after lot/plan
\* identifiers that fill a group of plan terms
FolioLists ==
  {LongFolios(SA_FOLIO_CHUNK), LongFolios(SA_FOLIO_CHUNK + 1),
   LongList(SA_PLAN_CHUNK + 1, TRUE) \o LongFolios(SA_FOLIO_CHUNK + 1)}

IdentLists ==
  ShortLists \cup {LongList(n, up) : n \in LongLengths, up \in BOOLEAN}
  \cup FolioLists

\* the entries the parser makes of a list of identifiers
EntriesOf(l) == parse_bulk_entries(Join(l, <<";">>))

NSW_Build ==
  /\ prog = "NSW" /\ pc = "build"
  /\ wheres' = build_where(lotids)
  /\ pc' = "built"
  /\ UNCHANGED <<prog, raw_input, max_records, lotids, wi, ids, all_arc,
                 seen_ids, debug, result, raised, http, merged>>

QLD_Build ==
  /\ prog = "QLD" /\ pc = "build"
  /\ wheres' = build_where_from_lotidstrings(lotids)
  /\ pc' = "built"
  /\ UNCHANGED <<prog, raw_input, max_records, lotids, wi, ids, all_arc,
                 seen_ids, debug, result, raised, http, merged>>

SA_Build ==
  /\ prog = "SA" /\ pc = "build"
  /\ wheres' = SA_build_where(EntriesOf(lotids))
  /\ pc' = "built"
  /\ UNCHANGED <<prog, raw_input, max_records, lotids, wi, ids, all_arc,
                 seen_ids, debug, result, raised, http, merged>>

nsw_Build ==
  /\ prog = "nsw" /\ pc = "build"
  /\ wheres' = build_where_lotid(EntriesOf(lotids))
  /\ pc' = "built"
  /\ UNCHANGED <<prog, raw_input, max_records, lotids, wi, ids, all_arc,
                 seen_ids, debug, result, raised, http, merged>>

InitBuild ==
  /\ prog \in {"NSW"} \cup Direct
  /\ raw_input = <<>>
  /\ max_records = 1
  /\ pc = "build"
  /\ lotids \in IdentLists
  /\ Fresh

NextBuild == NSW_Build \/ QLD_Build \/ SA_Build \/ nsw_Build

SpecBuild == InitBuild /\ [][NextBuild]_vars

-----------------------------------------------------------------------------
(* What the history says the merge should hold *)

IsOkFetch(r) == r.op = "fetch" /\ r.outcome = "ok"

\* the records of one answered fetch, each with the object id the response names
KeyedRecords(r) ==
  LET field == IF "objectIdFieldName" \in DOMAIN r.body
               THEN r.body.objectIdFieldName ELSE "OBJECTID"
  IN [j \in 1..Len(r.body.features) |->
        [f |-> r.body.features[j], w |-> r.w,
         key |-> IF field \in DOMAIN r.body.features[j].attributes
                 THEN r.body.features[j].attributes[field] ELSE None]]

\* every record fetched so far, in chunk order
Fetched ==
  LET ok == SelectSeq(http, IsOkFetch)
  IN Concat([i \in 1..Len(ok) |-> KeyedRecords(ok[i])])

\* positions in recs of the records that carry an object id no earlier record carries
FirstSeen(recs) ==
  {k \in 1..Len(recs) :
     recs[k].key # None /\ \A j \in 1..(k - 1) : recs[j].key # recs[k].key}

\* the elements of recs at the positions of idx, in order
Pick(recs, idx) ==
  [n \in 1..Cardinality(idx) |->
     recs[CHOOSE k \in idx : Cardinality({j \in idx : j < k}) = n - 1].f]

\* the list accumulated by the loop: all_arc until the cap replaces it
Accumulated == IF pc = "done" THEN merged ELSE all_arc

\* the names of the features of a GeoJSON list / of the records with a geometry
Names(feats) == [i \in 1..Len(feats) |-> feats[i].properties["name"]]
HasRings(f) == f.geometry # None
NamesWithGeometry(recs) ==
  LET g == SelectSeq(recs, HasRings) IN [i \in 1..Len(g) |-> g[i].attributes["name"]]

Returned == pc = "done" /\ ~raised
\* the expressions whose requests all succeeded / one of whose requests failed
FailedChunks == {http[i].w : i \in {j \in 1..Len(http) : http[j].outcome # "ok"}}

-----------------------------------------------------------------------------
(* Claims about NSW_query.query *)

\* C1: in NSW_query.query a failed request of one filter expression stops
\* neither the loop nor the call: once the call is over it has returned
\* normally, every filter expression has had its count request, and the
\* returned features are those of the expressions that succeeded (first seen
\* per object id, within the cap, with a geometry), whatever failed.
C1_FailureIsolated ==
  (prog = "NSW" /\ pc = "done" /\ wheres # <<>>) =>
    /\ ~raised
    /\ \A w \in 1..Len(wheres) :
         \E i \in 1..Len(http) : http[i].w = w /\ http[i].op = "count"
    /\ Names(result)
         = NamesWithGeometry(Take(Pick(Fetched, FirstSeen(Fetched)), max_records))

\* a call that returned features although an earlier and a later expression failed
C1_Witness ==
  /\ prog = "NSW" /\ Returned /\ Len(wheres) >= 2
  /\ 1 \in FailedChunks
  /\ 2 \notin FailedChunks
  /\ result # <<>>

\* C3: a request that failed with a transient error (HTTP 5xx, timeout) is
\* issued again: the request after it in the history, or the request the call
\* is about to issue, is the same request of the same expression.
C3_TransientRetried ==
  \A i \in 1..Len(http) :
    http[i].outcome \in Transient =>
      IF i < Len(http)
      THEN http[i + 1].op = http[i].op /\ http[i + 1].w = http[i].w
      ELSE pc = http[i].op /\ wi = http[i].w

\* C4: an expression whose count-only query returned 0 gets no
\* identifiers-only and no fetch-by-ids request, and no record of it is merged.
C4_ZeroCountSkipped ==
  \A i \in 1..Len(http) :
    (prog = "NSW" /\ http[i].op = "count" /\ http[i].outcome = "ok"
       /\ http[i].count = 0) =>
      /\ \A j \in 1..Len(http) : http[j].w = http[i].w => http[j].op = "count"
      /\ \A k \in 1..Len(Fetched) : Fetched[k].w # http[i].w
      /\ (pc # "done" /\ wi = http[i].w) => pc = "count"

\* the first expression counted 0 and the call went on to the second one
C4_Witness ==
  /\ prog = "NSW" /\ Len(http) >= 2
  /\ http[1].op = "count" /\ http[1].outcome = "ok" /\ http[1].count = 0
  /\ http[2].w = 2

\* C5: the accumulated list holds exactly the records that were the first
\* to carry their object id, in chunk order and unchanged (so one feature per
\* object id, with the first record's attributes), and seen_ids holds those ids.
C5_FirstSeenWins ==
  prog = "NSW" =>
    /\ Accumulated = Pick(Fetched, FirstSeen(Fetched))
    /\ seen_ids = {Fetched[k].key : k \in FirstSeen(Fetched)}
    /\ \A a, b \in FirstSeen(Fetched) : Fetched[a].key = Fetched[b].key => a = b

\* the same object id came in two chunks with different attributes, and once
\* more inside one chunk
C5_Witness ==
  /\ prog = "NSW" /\ pc = "done"
  /\ \E a, b, c \in 1..Len(Fetched) :
       /\ a < b /\ b < c
       /\ Fetched[a].key # None
       /\ Fetched[a].key = Fetched[b].key /\ Fetched[b].key = Fetched[c].key
       /\ Fetched[a].w = 1 /\ Fetched[b].w = 2 /\ Fetched[c].w = 2
       /\ Fetched[a].f # Fetched[b].f
  /\ Len(merged) = 1

\* C9: the returned collection has at most max_records features; the cap
\* keeps the merged list when it is no longer than max_records and exactly
\* its first max_records elements otherwise, and the returned features are
\* the ones kept (those of them that have a geometry), in merge order.
C9_GlobalCap ==
  (prog = "NSW" /\ pc = "done" /\ wheres # <<>>) =>
    /\ Len(result) <= max_records
    /\ Len(all_arc) = Min(Len(merged), max_records)
    /\ \A i \in 1..Len(all_arc) : all_arc[i] = merged[i]
    /\ Names(result) = NamesWithGeometry(all_arc)

\* the merged list was longer than max_records and max_records features came back
C9_Witness ==
  /\ prog = "NSW" /\ pc = "done"
  /\ Len(merged) > max_records
  /\ Len(result) = max_records
  /\ max_records > 1

\* C10: whenever max_records made the call leave records out (the fetch asked
\* for fewer identifiers than the expression has, or the merged list was cut),
\* the diagnostics hold an entry saying that the result was capped.
C10_CapReported ==
  (prog = "NSW" /\ pc = "done") =>
    ((\/ \E i \in 1..Len(http) : IsOkFetch(http[i]) /\ Len(http[i].asked) < Len(http[i].ids)
      \/ Len(merged) > max_records)
       => \E d \in 1..Len(debug) : debug[d].tag = "capped")

-----------------------------------------------------------------------------
(* Claims about the direct queries and about empty input *)

\* C2: a direct-strategy query (QLD_query.query, SA_query.query,
\* nsw_query.query) never raises to its caller when a request fails: once it is
\* over it has returned the features of the expressions that succeeded.
C2_DirectNeverRaises ==
  (prog \in Direct /\ pc = "done") =>
    /\ ~raised
    /\ result = all_arc

\* the parser found no identifier, or none the builder can use
NoIdentifier == pc # "start" /\ (lotids = <<>> \/ wheres = <<SENTINEL>>)

\* C8: a call (NSW_query.query, QLD_query.query, SA_query.query) whose raw
\* input holds no parsable identifier issues no HTTP request and returns no
\* feature.
C8_EmptyInputNoRequest ==
  (prog \in {"NSW", "QLD", "SA"} /\ NoIdentifier) =>
    /\ http = <<>>
    /\ pc = "done" /\ ~raised /\ result = <<>>

-----------------------------------------------------------------------------
(* Claims about the builders *)

\* the quoted items of an expression, in order
Quoted(text) ==
  LET parts == Split(text, "'")
  IN [k \in 1..(Len(parts) \div 2) |-> parts[2 * k]]
QuotedStep(acc, w) == acc \o Quoted(w)
\* the IN-lists of the expressions, concatenated
InLists(ws) == FoldLeft(QuotedStep, <<>>, ws)
Occurrences(x, l) == Cardinality({i \in 1..Len(l) : l[i] = x})
\* the identifiers that are lot/plan text
IsLotPlanToken(t) == Contains(t, <<"/", "/">>)
LotPlanOnly(l) == \A i \in 1..Len(l) : IsLotPlanToken(l[i])

\* C6: for a list of distinct identifiers, the IN-lists of the expressions that
\* NSW_query._build_where, nsw_query._build_where_lotid and
\* QLD_query.build_where_from_lotidstrings produce, concatenated, hold every
\* identifier exactly once and nothing else.
C6_EveryIdentifierOnce ==
  (pc = "built" /\ prog \in {"NSW", "QLD", "nsw"} /\
   (prog = "nsw" => LotPlanOnly(lotids))) =>
    LET items == InLists(wheres)
    IN /\ Len(items) = Len(lotids)
       /\ \A i \in 1..Len(lotids) : Occurrences(lotids[i], items) = 1
C6_Witness ==
  /\ pc = "built" /\ prog \in {"NSW", "QLD", "nsw"}
  /\ Len(lotids) = 2 * NSW_IN_CHUNK + 1
  /\ Len(wheres) > 1
  /\ Len(InLists(wheres)) = Len(lotids)

\* the identifiers a builder can use
Usable(p, l) ==
  CASE p \in {"NSW", "QLD"} -> {i \in 1..Len(l) : TRUE}
    [] p = "nsw" -> {i \in 1..Len(l) : IsLotPlanToken(l[i])}
    [] p = "SA" -> {i \in 1..Len(l) : Contains(l[i], <<"/">>)}

\* C7: a builder returns the one-element list ["1=2"] exactly when it is given
\* no usable identifier (an empty list, or only entries of kinds it ignores);
\* otherwise it returns a non-empty list without "1=2".
C7_SentinelIffNothingUsable ==
  pc = "built" =>
    IF Usable(prog, lotids) = {}
    THEN wheres = <<SENTINEL>>
    ELSE /\ wheres # <<>>
         /\ \A i \in 1..Len(wheres) : wheres[i] # SENTINEL
C7_Witness ==
  /\ pc = "built" /\ prog = "nsw"
  /\ lotids # <<>>
  /\ Usable(prog, lotids) = {}
  /\ wheres = <<SENTINEL>>

\* the number of identifiers an expression covers: the items of its IN-list,
\* or for SA the terms, each of which quotes two values
Covered(p, w) == IF p = "SA" THEN Len(Quoted(w)) \div 2 ELSE Len(Quoted(w))
\* the group an expression belongs to: for SA the plan/parcel terms and the
\* volume/folio terms are chunked apart
GroupOf(p, w) ==
  IF p = "SA" /\ StartsWith(w, <<"(", "v", "o", "l", "u", "m", "e">>)
  THEN "folio" ELSE "plan"
\* the chunk size of a group
ChunkSize(p, g) ==
  CASE p = "NSW" -> NSW_IN_CHUNK
    [] p = "QLD" -> QLD_IN_CHUNK
    [] p = "nsw" -> nsw_IN_CHUNK
    [] p = "SA" -> IF g = "folio" THEN SA_FOLIO_CHUNK ELSE SA_PLAN_CHUNK

\* C22: every expression of a builder covers at most N identifiers, N being
\* the chunk size of its group (NSW_query 100, nsw_query 150, QLD 100, SA 80
\* for plan/parcel terms and 100 for volume/folio terms, all between 50 and
\* 150), and every expression followed by another of its group covers exactly N.
C22_ChunkSizes ==
  /\ \A n \in {NSW_IN_CHUNK, nsw_IN_CHUNK, QLD_IN_CHUNK, SA_PLAN_CHUNK,
               SA_FOLIO_CHUNK} : 50 <= n /\ n <= 150
  /\ NSW_IN_CHUNK = 100 /\ nsw_IN_CHUNK = 150 /\ QLD_IN_CHUNK = 100
  /\ SA_PLAN_CHUNK = 80 /\ SA_FOLIO_CHUNK = 100
  /\ pc = "built" =>
       \A w \in 1..Len(wheres) :
         LET g == GroupOf(prog, wheres[w])
             n == ChunkSize(prog, g)
         IN /\ Covered(prog, wheres[w]) <= n
            /\ (w < Len(wheres) /\ GroupOf(prog, wheres[w + 1]) = g)
                 => Covered(prog, wheres[w]) = n
\* SA has built a full and a short expression of plan terms and then a full
\* and a short expression of volume/folio terms
C22_Witness ==
  /\ pc = "built" /\ prog = "SA" /\ Len(wheres) = 4
  /\ GroupOf(prog, wheres[1]) = "plan" /\ Covered(prog, wheres[1]) = SA_PLAN_CHUNK
  /\ GroupOf(prog, wheres[2]) = "plan" /\ Covered(prog, wheres[2]) = 1
  /\ GroupOf(prog, wheres[3]) = "folio" /\ Covered(prog, wheres[3]) = SA_FOLIO_CHUNK
  /\ GroupOf(prog, wheres[4]) = "folio" /\ Covered(prog, wheres[4]) = 1

-----------------------------------------------------------------------------
(* The geometry translator applied on its own *)

Ring2 == << <<2, 2>>, <<3, 2>>, <<3, 3>>, <<2, 2>> >>
\* native geometries: absent, empty, point, multipoint, polyline, polygon, and
\* one of a kind the translator does not know
GeomPool ==
  <<None,
    EmptyDict,
    [x |-> 1, y |-> 2],
    [points |-> <<>>],
    [points |-> << <<1, 2>> >>],
    [points |-> << <<1, 2>>, <<3, 4>> >>],
    [paths |-> <<>>],
    [paths |-> << <<>> >>],
    [paths |-> << Ring1 >>],
    [paths |-> << Ring1, <<>>, Ring2 >>],
    [rings |-> <<>>],
    [rings |-> << <<>> >>],
    [rings |-> << <<>>, <<>> >>],
    [rings |-> << Ring1 >>],
    [rings |-> << Ring1, <<>> >>],
    [rings |-> << <<>>, Ring2 >>],
    [rings |-> << Ring1, Ring2 >>],
    [rings |-> << Ring2, <<>>, Ring1, Ring1 >>],
    [curveRings |-> << Ring1 >>]>>
\* one provider record per native geometry, numbered by its attributes
GeomFeatures ==
  {[attributes |-> [n |-> IntV(i)], geometry |-> GeomPool[i]] : i \in 1..Len(GeomPool)}

\* _arcgis_geom_to_geojson(f.get("geometry") or {}) for the one record f
Geom_Translate ==
  /\ prog = "utils" /\ pc = "geom"
  /\ result' = <<arcgis_geom_to_geojson(
                   IF all_arc[1].geometry = None THEN EmptyDict
                   ELSE all_arc[1].geometry)>>
  /\ pc' = "translated"
  /\ UNCHANGED <<prog, raw_input, max_records, lotids, wheres, wi, ids, all_arc,
                 seen_ids, debug, raised, http, merged>>

\* arcgis_to_geojson(all_arc)
Geom_Convert ==
  /\ prog = "utils" /\ pc = "convert"
  /\ result' = arcgis_to_geojson(all_arc)
  /\ pc' = "converted"
  /\ UNCHANGED <<prog, raw_input, max_records, lotids, wheres, wi, ids, all_arc,
                 seen_ids, debug, raised, http, merged>>

InitGeom ==
  /\ prog = "utils"
  /\ raw_input = <<>>
  /\ max_records = 1
  /\ lotids = <<>>
  /\ wheres = <<>> /\ wi = 0 /\ ids = <<>> /\ seen_ids = {} /\ debug = <<>>
  /\ result = <<>> /\ raised = FALSE /\ http = <<>> /\ merged = <<>>
  /\ \/ pc = "geom" /\ all_arc \in [1..1 -> GeomFeatures]
     \/ pc = "convert" /\ all_arc \in SeqsUpTo(GeomFeatures, MaxGeoms)

NextGeom == Geom_Translate \/ Geom_Convert

SpecGeom == InitGeom /\ [][NextGeom]_vars

-----------------------------------------------------------------------------
(* Claims about the geometry translator *)

\* the non-empty members of a list of rings, paths or points, in order
Filled(lst) == LET Some(r) == r # <<>> IN SelectSeq(lst, Some)
\* a native geometry from which a GeoJSON geometry can be made
Translatable(g) ==
  /\ g # None /\ g # EmptyDict
  /\ \/ {"x", "y"} \subseteq DOMAIN g
     \/ "points" \in DOMAIN g /\ g.points # <<>>
     \/ "paths" \in DOMAIN g /\ Filled(g.paths) # <<>>
     \/ "rings" \in DOMAIN g /\ Filled(g.rings) # <<>>
HasTranslatable(f) == Translatable(f.geometry)
\* the rings of the record being translated, when it is a polygon geometry
TranslatedRings ==
  IF pc = "translated" /\ all_arc[1].geometry # None
     /\ all_arc[1].geometry # EmptyDict /\ "rings" \in DOMAIN all_arc[1].geometry
  THEN <<Filled(all_arc[1].geometry.rings)>>
  ELSE <<>>

\* C11: every feature arcgis_to_geojson returns has a geometry; the features
\* returned are, in input order, exactly the records whose geometry can be
\* translated, each with its own attributes.
C11_NoNullGeometry ==
  pc = "converted" =>
    LET kept == SelectSeq(all_arc, HasTranslatable)
    IN /\ \A i \in 1..Len(result) : result[i].geometry # None
       /\ Len(result) = Len(kept)
       /\ \A i \in 1..Len(kept) : result[i].properties = kept[i].attributes
\* the first of two records had no usable geometry and only the second came back
C11_Witness ==
  /\ pc = "converted"
  /\ Len(all_arc) = 2 /\ Len(result) = 1
  /\ ~Translatable(all_arc[1].geometry)
  /\ result[1].properties = all_arc[2].attributes

\* C12: a geometry with exactly one non-empty ring R becomes a Polygon with
\* coordinates [R]; one whose ring list is empty or holds only empty rings
\* becomes null.
C12_OneRingPolygon ==
  \A i \in 1..Len(TranslatedRings) :
    LET rings == TranslatedRings[i]
    IN /\ Len(rings) = 1 =>
            result[1] = [type |-> "Polygon", coordinates |-> <<rings[1]>>]
       /\ Len(rings) = 0 => result[1] = None
\* the one non-empty ring came after an empty one
C12_Witness ==
  /\ pc = "translated"
  /\ all_arc[1].geometry = [rings |-> << <<>>, Ring2 >>]
  /\ result = <<[type |-> "Polygon", coordinates |-> <<Ring2>>]>>

\* C13: a geometry with k >= 2 non-empty rings R1..Rk becomes a MultiPolygon
\* of k polygons in ring order, the i-th being [Ri], so that its first ring,
\* polygon[0], is Ri.
C13_MultiPolygonPerRing ==
  \A i \in 1..Len(TranslatedRings) :
    LET rings == TranslatedRings[i]
    IN Len(rings) >= 2 =>
         /\ result[1].type = "MultiPolygon"
         /\ Len(result[1].coordinates) = Len(rings)
         /\ \A k \in 1..Len(rings) :
              /\ result[1].coordinates[k] = <<rings[k]>>
              /\ result[1].coordinates[k][1] = rings[k]

-----------------------------------------------------------------------------
(* The parsers applied on their own to raw text *)

\* tokens of raw text: LOT//PLAN and LOT/PLAN, the same in another case and
\* with blanks, a compact lot-plan, ranges and a lot list, a section form,
\* a volume/folio, a lotidstring, and text that is no identifier
TokenTexts ==
  {<<"1", "3", "/", "/", "D", "P", "1", "2">>,
   <<"1", "3", "/", "D", "P", "1", "2">>,
   <<"1", "3", "/", "/", "d", "p", "1", "2">>,
   <<"1", "3", " ", "/", "/", " ", "D", "P", "1", "2">>,
   <<"7", "A", "/", "/", "S", "P", "3">>,
   <<"7", "A", "/", "S", "P", "3">>,
   <<"1", "3", "D", "P", "1", "2">>,
   <<"1", "-", "3", "/", "/", "D", "P", "1">>,
   <<"3", "-", "1", "/", "/", "D", "P", "1">>,
   <<"1", "-", "3", "/", "2", "/", "/", "D", "P", "1">>,
   <<"1", ",", "2", "/", "/", "D", "P", "1">>,
   <<"2", "/", "5", "/", "/", "D", "P", "1">>,
   <<"5", "1", "0", "0", "/", "1", "2">>,
   <<"L", "O", "T", " ", "1", " ", "D", "P", "9">>,
   <<"h", "e", "l", "l", "o">>,
   <<"-", "-">>}

\* the raw texts: up to MaxToks tokens, separated by ";" or by ", "
ParseRaws ==
  {Join(l, sep) : l \in SeqsUpTo(TokenTexts, MaxToks), sep \in {<<";">>, <<",", " ">>}}

\* the arguments of expand_lot_ranges: "a-b", and tokens that are no range
RangeText(a, b) == DecStr(a) \o <<"-">> \o DecStr(b)
PlainTokens ==
  {<<"5">>, <<"7", "A">>, <<"1", "-">>, <<"-", "3">>, <<"1", "-", "2", "-", "3">>,
   <<"A", "-", "3">>, <<"1", "2", "0">>}
RangeRaws == {RangeText(a, b) : a, b \in 0..MaxRange} \cup PlainTokens

\* fault: out is a list that outlives the invocation
preclean_locals_Kept == [out |-> lotids, seen |-> {}]

\* the locals a parser starts from: "out, seen = [], set()" and "entries = []"
preclean_locals == [out |-> <<>>, seen |-> {}]
entries_local == <<>>

\* the loop of _preclean from given locals: a canonical token is appended
\* unless it is in seen
preclean_into(raw, loc) ==
  loc.out \o SelectSeq(preclean(raw), LAMBDA t : t \notin loc.seen)
\* the loop of parse_bulk_entries appending to a given list
parse_into(raw, entries) == entries \o parse_bulk_entries(raw)

\* one invocation: the result is returned and kept in the history
Returns(out) ==
  /\ wi < MaxCalls
  /\ wi' = wi + 1
  /\ lotids' = out
  /\ merged' = Append(merged, out)
  /\ pc' = "parsed"
  /\ UNCHANGED <<prog, raw_input, max_records, wheres, ids, all_arc, seen_ids,
                 debug, result, raised, http>>

NSW_Parse == prog = "NSW" /\ Returns(preclean_into(raw_input, preclean_locals))
QLD_Parse == prog = "QLD" /\ Returns(parse_lotidstrings(raw_input))
utils_Parse == prog = "utils" /\ Returns(parse_into(raw_input, entries_local))
utils_Expand == prog = "expand" /\ Returns(expand_lot_ranges(raw_input))

InitParse ==
  /\ \/ prog \in {"NSW", "QLD", "utils"} /\ raw_input \in ParseRaws
     \/ prog = "expand" /\ raw_input \in RangeRaws
  /\ max_records = 1
  /\ pc = "parse"
  /\ lotids = <<>>
  /\ Fresh

NextParse == NSW_Parse \/ QLD_Parse \/ utils_Parse \/ utils_Expand

SpecParse == InitParse /\ [][NextParse]_vars

-----------------------------------------------------------------------------
(* Claims about the parsers *)

\* C15: expand_lot_ranges("a-b") is the decimal strings from a to b inclusive,
\* ascending when a <= b and descending when a > b, |a-b|+1 of them; a token
\* that is not digits-digits comes back unchanged as the only element.
C15_RangeExpanded ==
  (prog = "expand" /\ pc = "parsed") =>
    /\ \A a, b \in 0..MaxRange :
         raw_input = RangeText(a, b) =>
           /\ Len(lotids) = (IF a <= b THEN b - a ELSE a - b) + 1
           /\ \A i \in 1..Len(lotids) :
                lotids[i] = DecStr(IF a <= b THEN a + i - 1 ELSE a - i + 1)
    /\ raw_input \in PlainTokens => lotids = <<raw_input>>
\* "11-9" gave "11", "10", "9"
C15_Witness ==
  /\ prog = "expand" /\ pc = "parsed"
  /\ raw_input = RangeText(11, 9)
  /\ lotids = <<<<"1", "1">>, <<"1", "0">>, <<"9">>>>

\* lots and plans, their two-part and three-part tokens, and the entry the
\* three-part token stands for
LotPlans ==
  {<<<<"1", "3">>, <<"D", "P", "1", "2">>>>, <<<<"7", "A">>, <<"S", "P", "3">>>>}
TwoPart(lp) == lp[1] \o <<"/">> \o lp[2]
ThreePart(lp) == lp[1] \o <<"/", "/">> \o lp[2]
LotPlanEntry(lot, sec, plan) ==
  [kind |-> IF sec = None THEN "lot_plan" ELSE "lot_section_plan",
   lot |-> lot, section |-> sec, plan |-> plan]

\* C14: the two-part token "L/P" is parsed like the three-part token "L//P":
\* NSW_query._preclean gives the canonical string "L//P" for both, and
\* utils.parse_bulk_entries the lot_plan entry of lot L and plan P for both.
C14_TwoPartAsThreePart ==
  (pc = "parsed" /\ prog \in {"NSW", "utils"}) =>
    \A lp \in LotPlans :
      raw_input \in {TwoPart(lp), ThreePart(lp)} =>
        lotids = IF prog = "NSW" THEN <<ThreePart(lp)>>
                 ELSE <<LotPlanEntry(lp[1], None, lp[2])>>

\* C16: the sequence a parser (NSW_query._preclean,
\* QLD_query._parse_lotidstrings, utils.parse_bulk_entries) returns holds no
\* two equal entries.
C16_NoEqualEntries ==
  (pc = "parsed" /\ prog \in {"NSW", "QLD", "utils"}) =>
    \A i, j \in 1..Len(lotids) : lotids[i] = lotids[j] => i = j

\* the non-empty tokens of a raw text
Tokens(raw) ==
  LET pieces == SplitPieces(raw)
  IN SelectSeq([i \in 1..Len(pieces) |-> Strip(pieces[i])], IsNonEmpty)
Hello == <<"h", "e", "l", "l", "o">>

\* C17: no token disappears from the output of utils.parse_bulk_entries or
\* NSW_query._preclean: a raw text with a non-empty token gives at least one
\* entry, and a token that matches no pattern gives an entry tagged unknown
\* that carries its text.
C17_NoTokenLost ==
  (pc = "parsed" /\ prog \in {"NSW", "utils"}) =>
    /\ Tokens(raw_input) # <<>> => lotids # <<>>
    /\ (prog = "utils" /\ raw_input = Hello) =>
         lotids = <<[kind |-> "unknown", raw |-> Hello]>>

EntriesOfLots(lots, sec, plan) ==
  [i \in 1..Len(lots) |-> LotPlanEntry(lots[i], sec, plan)]
DP1 == <<"D", "P", "1">>

\* C19: utils.parse_bulk_entries turns a token whose lot segment is a range
\* "a-b" (with or without a section) or a comma-separated lot list into one
\* entry per lot, in order, with the same plan (and section).
C19_LotSegmentExpanded ==
  (pc = "parsed" /\ prog = "utils") =>
    /\ raw_input = <<"1", "-", "3", "/", "/", "D", "P", "1">> =>
         lotids = EntriesOfLots(<<<<"1">>, <<"2">>, <<"3">>>>, None, DP1)
    /\ raw_input = <<"3", "-", "1", "/", "/", "D", "P", "1">> =>
         lotids = EntriesOfLots(<<<<"3">>, <<"2">>, <<"1">>>>, None, DP1)
    /\ raw_input = <<"1", "-", "3", "/", "2", "/", "/", "D", "P", "1">> =>
         lotids = EntriesOfLots(<<<<"1">>, <<"2">>, <<"3">>>>, StrV(<<"2">>), DP1)
    /\ raw_input = <<"1", ",", "2", "/", "/", "D", "P", "1">> =>
         lotids = EntriesOfLots(<<<<"1">>, <<"2">>>>, None, DP1)

-----------------------------------------------------------------------------
(* The builders applied to identifiers that hold quote characters *)

\* identifier strings: without a quote, with one inside, a quote alone, and
\* with two in a row at the end
QuoteIds == {<<"O", "B">>, <<"O", "'", "B">>, <<"'">>, <<"A", "'", "'">>}
\* entries carrying such strings in the fields the builders interpolate
QuoteEntries ==
  {[kind |-> "lot_plan", lot |-> x, section |-> None, plan |-> <<"D", "P", "1">>] :
     x \in QuoteIds}
  \cup {[kind |-> "lotidstring", lotidstring |-> <<"L", "O", "T", " ">> \o x] :
          x \in QuoteIds}
  \cup {[kind |-> "volume_folio", volume |-> x, folio |-> <<"2">>] : x \in QuoteIds}

\* SA_query.build_where(entries) on the given entries
SA_BuildEntries ==
  /\ prog = "SA" /\ pc = "build"
  /\ wheres' = SA_build_where(lotids)
  /\ pc' = "built"
  /\ UNCHANGED <<prog, raw_input, max_records, lotids, wi, ids, all_arc,
                 seen_ids, debug, result, raised, http, merged>>

\* nsw_query._build_where_lotid(entries) on the given entries
nsw_BuildEntries ==
  /\ prog = "nsw" /\ pc = "build"
  /\ wheres' = build_where_lotid(lotids)
  /\ pc' = "built"
  /\ UNCHANGED <<prog, raw_input, max_records, lotids, wi, ids, all_arc,
                 seen_ids, debug, result, raised, http, merged>>

InitQuote ==
  /\ \/ prog \in {"NSW", "QLD"} /\ lotids \in SeqsUpTo(QuoteIds, MaxQuoted)
     \/ prog \in {"SA", "nsw"} /\ lotids \in SeqsUpTo(QuoteEntries, MaxQuoted)
  /\ raw_input = <<>>
  /\ max_records = 1
  /\ pc = "build"
  /\ Fresh

NextQuote == NSW_Build \/ QLD_Build \/ SA_BuildEntries \/ nsw_BuildEntries

SpecQuote == InitQuote /\ [][NextQuote]_vars

-----------------------------------------------------------------------------
(* Claim about quoting *)

\* the string literals of an expression, read as the service reads them: a
\* quote opens a literal, two quotes in a row inside it stand for one quote
\* character, a single quote closes it; ok says that the last literal is closed
LiteralStep(acc, c) ==
  IF acc.mode = "out"
  THEN IF c = "'" THEN [acc EXCEPT !.mode = "in", !.cur = <<>>] ELSE acc
  ELSE IF acc.mode = "in"
  THEN IF c = "'" THEN [acc EXCEPT !.mode = "quote"]
       ELSE [acc EXCEPT !.cur = Append(acc.cur, c)]
  ELSE IF c = "'" THEN [acc EXCEPT !.mode = "in", !.cur = Append(acc.cur, c)]
       ELSE [acc EXCEPT !.mode = "out", !.lits = acc.lits \cup {acc.cur}]
Literals(text) ==
  LET end == FoldLeft(LiteralStep, [mode |-> "out", cur |-> <<>>, lits |-> {}], text)
  IN [lits |-> IF end.mode = "quote" THEN end.lits \cup {end.cur} ELSE end.lits,
      ok |-> end.mode # "in"]
\* the strings a builder interpolates for one identifier or entry
Interpolated(p, x) ==
  IF p \in {"NSW", "QLD"} THEN {x}
  ELSE IF x.kind = "lot_plan"
  THEN IF p = "SA" THEN {x.plan, x.lot} ELSE {x.lot \o <<"/", "/">> \o x.plan}
  ELSE IF x.kind = "volume_folio"
  THEN IF p = "SA" THEN {x.volume, x.folio} ELSE {}
  ELSE IF p = "nsw" THEN {x.lotidstring} ELSE {}

\* C20: in every expression a builder produces, each quote character of an
\* identifier is doubled, so that the string literals of the expressions are
\* exactly the identifiers given and no identifier closes its literal.
C20_QuotesDoubled ==
  pc = "built" =>
    /\ \A w \in 1..Len(wheres) : Literals(wheres[w]).ok
    /\ UNION {Literals(wheres[w]).lits : w \in 1..Len(wheres)}
         = UNION {Interpolated(prog, lotids[i]) : i \in 1..Len(lotids)}

-----------------------------------------------------------------------------
(* A builder applied to two lists that hold the same identifiers *)

OrderPool ==
  {<<"1", "/", "/", "D", "P", "1">>,
   <<"2", "/", "/", "D", "P", "1">>,
   <<"1", "0", "/", "/", "S", "P", "2">>}

Range(l) == {l[i] : i \in 1..Len(l)}

\* two lists of the same identifiers: short ones in any order and with
\* repetitions, and a list of more than one chunk with its reverse
OrderPairs ==
  {p \in SeqsUpTo(OrderPool, MaxList) \X SeqsUpTo(OrderPool, MaxList) :
     Range(p[1]) = Range(p[2])}
  \cup {<<LongList(nsw_IN_CHUNK + 1, TRUE), LongList(nsw_IN_CHUNK + 1, FALSE)>>}

NSW_BuildBoth ==
  /\ prog = "NSW" /\ pc = "build"
  /\ wheres' = build_where(lotids)
  /\ merged' = build_where(ids)
  /\ pc' = "built"
  /\ UNCHANGED <<prog, raw_input, max_records, lotids, wi, ids, all_arc,
                 seen_ids, debug, result, raised, http>>

QLD_BuildBoth ==
  /\ prog = "QLD" /\ pc = "build"
  /\ wheres' = build_where_from_lotidstrings(lotids)
  /\ merged' = build_where_from_lotidstrings(ids)
  /\ pc' = "built"
  /\ UNCHANGED <<prog, raw_input, max_records, lotids, wi, ids, all_arc,
                 seen_ids, debug, result, raised, http>>

nsw_BuildBoth ==
  /\ prog = "nsw" /\ pc = "build"
  /\ wheres' = build_where_lotid(EntriesOf(lotids))
  /\ merged' = build_where_lotid(EntriesOf(ids))
  /\ pc' = "built"
  /\ UNCHANGED <<prog, raw_input, max_records, lotids, wi, ids, all_arc,
                 seen_ids, debug, result, raised, http>>

InitOrder ==
  /\ prog \in {"NSW", "QLD", "nsw"}
  /\ raw_input = <<>>
  /\ max_records = 1
  /\ pc = "build"
  /\ \E p \in OrderPairs : lotids = p[1] /\ ids = p[2]
  /\ wheres = <<>> /\ wi = 0 /\ all_arc = <<>> /\ seen_ids = {}
  /\ debug = <<>> /\ result = <<>> /\ raised = FALSE /\ http = <<>>
  /\ merged = <<>>

NextOrder == NSW_BuildBoth \/ QLD_BuildBoth \/ nsw_BuildBoth

SpecOrder == InitOrder /\ [][NextOrder]_vars

-----------------------------------------------------------------------------
(* Claim about the order of the identifiers *)

\* C21: two lists that hold the same identifiers, in whatever order and with
\* whatever repetitions, give the same list of expressions, for each of
\* NSW_query._build_where, QLD_query.build_where_from_lotidstrings and
\* nsw_query._build_where_lotid.
C21_SameExpressionsAnyOrder ==
  pc = "built" => wheres = merged

-----------------------------------------------------------------------------
(* Claims about the diagnostics and the merge of NSW_query.query *)

Failed(r) == r.outcome # "ok"

\* C23: for every request of NSW_query.query that raised, the diagnostic list
\* holds an error entry that carries the error and the text of the expression
\* the request belonged to.
C23_ErrorNamesExpression ==
  (prog = "NSW" /\ pc = "done") =>
    \A i \in 1..Len(http) :
      Failed(http[i]) =>
        \E d \in 1..Len(debug) :
          /\ debug[d].tag = "error"
          /\ debug[d].e = http[i].outcome
          /\ debug[d].url_where = wheres[http[i].w]

\* C24: in NSW_query.query a fetched record without the provider's object id
\* that carries a lotidstring is kept in the merged list.
C24_NoObjectIdKept ==
  prog = "NSW" =>
    \A k \in 1..Len(Fetched) :
      (Fetched[k].key = None /\ "lotidstring" \in DOMAIN Fetched[k].f.attributes)
        => \E j \in 1..Len(Accumulated) : Accumulated[j] = Fetched[k].f

\* the field a fetch answer names as the object id
ObjectIdField(body) ==
  IF "objectIdFieldName" \in DOMAIN body THEN body.objectIdFieldName ELSE "OBJECTID"

\* C25: no feature NSW_query.query returns has among its properties the field
\* an answered fetch named as the object id, nor Shape_Area, nor Shape_Length.
C25_NoBookkeepingAttributes ==
  (prog = "NSW" /\ pc = "done") =>
    \A f \in 1..Len(result) :
      /\ "Shape_Area" \notin DOMAIN result[f].properties
      /\ "Shape_Length" \notin DOMAIN result[f].properties
      /\ \A i \in 1..Len(http) :
           IsOkFetch(http[i]) =>
             ObjectIdField(http[i].body) \notin DOMAIN result[f].properties

-----------------------------------------------------------------------------
(* The sanitizer applied on its own *)

Absent == [absent |-> TRUE]
PutIfPresent(p, k, v) == IF v = Absent THEN p ELSE Put(p, k, v)

\* what a provider record may hold in the fields the sanitizer reads
LotidValues ==
  {Absent, None, StrV(<<>>), StrV(<<" ">>),
   StrV(<<"1", "/", "/", "D", "P", "1">>),
   StrV(<<"L", "o", "t", " ", "5", " ", "D", "P", "7">>)}
LotValues == {Absent, None, StrV(<<>>), IntV(13), IntV(0), StrV(<<" ", "7", " ">>)}
SectionValues == {Absent, None, StrV(<<" ">>), StrV(<<"A">>), IntV(2)}
PlanValues == {Absent, StrV(<<>>), StrV(<<"d", "p", " ", "1", "2">>)}
LabelValues == {Absent, StrV(<<"x">>)}

SanitizerInputs ==
  {PutIfPresent(PutIfPresent(PutIfPresent(PutIfPresent(PutIfPresent(
     [name |-> Name("a"), OBJECTID |-> IntV(1)],
     "lotidstring", lid), "lotnumber", lot), "sectionnumber", sec),
     "planlabel", plan), "label", lab) :
   lid \in LotidValues, lot \in LotValues, sec \in SectionValues,
   plan \in PlanValues, lab \in LabelValues}

\* sanitize_nsw_props on a FeatureCollection of one feature
Sanitize_Apply ==
  /\ prog = "utils" /\ pc = "sanitize"
  /\ result' = sanitize_nsw_props(all_arc)
  /\ pc' = "sanitized"
  /\ UNCHANGED <<prog, raw_input, max_records, lotids, wheres, wi, ids, all_arc,
                 seen_ids, debug, raised, http, merged>>

InitSanitize ==
  /\ prog = "utils"
  /\ raw_input = <<>>
  /\ max_records = 1
  /\ lotids = <<>>
  /\ wheres = <<>> /\ wi = 0 /\ ids = <<>> /\ seen_ids = {} /\ debug = <<>>
  /\ result = <<>> /\ raised = FALSE /\ http = <<>> /\ merged = <<>>
  /\ pc = "sanitize"
  /\ \E p \in SanitizerInputs :
       all_arc = <<[type |-> "Feature", properties |-> p, geometry |-> GeoPolygon]>>

NextSanitize == Sanitize_Apply

SpecSanitize == InitSanitize /\ [][NextSanitize]_vars

-----------------------------------------------------------------------------
(* Claim about the canonical label *)

\* the trimmed text of a field of a provider record, empty when the field is
\* missing or null
FieldText(p, k) ==
  IF k \in DOMAIN p /\ p[k] # None THEN Strip(PyStr(p[k])) ELSE <<>>
\* the canonical identifier of the lot, section and plan of a record
Canonical(p) ==
  LET lot == FieldText(p, "lotnumber")
      sec == FieldText(p, "sectionnumber")
      plan == Upper(RemoveBlanks(FieldText(p, "planlabel")))
  IN IF sec # <<>> THEN lot \o <<"/">> \o sec \o <<"/">> \o plan
     ELSE lot \o <<"/", "/">> \o plan

\* a record without lotidstring that has a lotnumber and a planlabel leaves the
\* sanitizer with lotidstring = label = "LOT/SECTION/PLAN", or "LOT//PLAN" when
\* it has no section
Synthesized ==
  pc = "sanitized" =>
    \A f \in 1..Len(result) :
      LET p == all_arc[f].properties
          q == result[f].properties
      IN (/\ FieldText(p, "lotidstring") = <<>>
          /\ FieldText(p, "lotnumber") # <<>>
          /\ FieldText(p, "planlabel") # <<>>)
         => /\ {"lotidstring", "label"} \subseteq DOMAIN q
            /\ q["lotidstring"] = StrV(Canonical(p))
            /\ q["label"] = StrV(Canonical(p))

\* C26 as stated: the synthesis, and every feature that leaves the sanitizer
\* with a label has a lotidstring equal to it.
C26_LabelIsLotidstring ==
  /\ Synthesized
  /\ pc = "sanitized" =>
       \A f \in 1..Len(result) :
         LET q == result[f].properties
         IN "label" \in DOMAIN q =>
              "lotidstring" \in DOMAIN q /\ q["lotidstring"] = q["label"]

\* C26: the synthesis, and every feature that leaves the sanitizer with a
\* non-empty lotidstring has a label equal to it; a feature that leaves it with
\* a label and no lotidstring has the label its provider record had.
C26_CanonicalLabel ==
  /\ Synthesized
  /\ pc = "sanitized" =>
       \A f \in 1..Len(result) :
         LET p == all_arc[f].properties
             q == result[f].properties
         IN IF Truthy(Get(q, "lotidstring"))
            THEN "label" \in DOMAIN q /\ q["label"] = q["lotidstring"]
            ELSE "label" \in DOMAIN q =>
                   "label" \in DOMAIN p /\ q["label"] = p["label"]
\* a record with lot 13, section A and plan "dp 12", no lotidstring and a label
\* of its own has been given "13/A/DP12" as lotidstring and label
C26_Witness ==
  /\ pc = "sanitized"
  /\ "lotidstring" \notin DOMAIN all_arc[1].properties
  /\ Get(all_arc[1].properties, "label") = StrV(<<"x">>)
  /\ Get(result[1].properties, "lotidstring")
       = StrV(<<"1", "3", "/", "A", "/", "D", "P", "1", "2">>)
  /\ Get(result[1].properties, "label") = Get(result[1].properties, "lotidstring")

-----------------------------------------------------------------------------
(* Claim about the cap of the direct queries *)

\* C27: the features QLD_query.query, SA_query.query and nsw_query.query
\* return, over all expressions together, are at most max_records.
C27_DirectCap ==
  (prog \in Direct /\ Returned /\ max_records > 0) => Len(result) <= max_records

-----------------------------------------------------------------------------
(* Claims about the requests of NSW_query.query *)

Rank(op) == CASE op = "count" -> 1 [] op = "ids" -> 2 [] op = "fetch" -> 3

\* C28: the requests of NSW_query.query are issued expression by expression,
\* and for one expression in the order count-only, identifiers-only,
\* fetch-by-ids, at most one of each; an identifiers-only request follows a
\* count greater than 0, a fetch-by-ids request follows a non-empty list of
\* identifiers and asks for at most max_records of them.
C28_RequestOrder ==
  prog = "NSW" =>
    /\ \A i \in 1..Len(http) :
         /\ http[i].op \in {"count", "ids", "fetch"}
         /\ http[i].op = "count" =>
              \A j \in 1..(i - 1) : http[j].w < http[i].w
         /\ http[i].op = "ids" =>
              /\ i > 1
              /\ http[i - 1].op = "count" /\ http[i - 1].w = http[i].w
              /\ http[i - 1].outcome = "ok" /\ http[i - 1].count > 0
         /\ http[i].op = "fetch" =>
              /\ i > 1
              /\ http[i - 1].op = "ids" /\ http[i - 1].w = http[i].w
              /\ http[i - 1].outcome = "ok" /\ http[i - 1].ids # <<>>
              /\ Len(http[i].asked) <= max_records
              /\ http[i].asked = Take(http[i - 1].ids, Len(http[i].asked))
    /\ \A i, j \in 1..Len(http) :
         i < j =>
           \/ http[i].w < http[j].w
           \/ http[i].w = http[j].w /\ Rank(http[i].op) < Rank(http[j].op)
\* the three requests of the first expression, the fetch asking for fewer
\* identifiers than there were, and then the count of the second expression
C28_Witness ==
  /\ prog = "NSW" /\ Len(http) >= 4
  /\ http[1].op = "count" /\ http[2].op = "ids" /\ http[3].op = "fetch"
  /\ Len(http[3].asked) < Len(http[2].ids)
  /\ http[4].op = "count" /\ http[4].w = 2

\* a step in which a request of NSW_query.query raises
RequestRaises ==
  /\ prog = "NSW"
  /\ Len(http') = Len(http) + 1
  /\ Failed(http'[Len(http')])
ErrorEntries(dbg) == {d \in 1..Len(dbg) : dbg[d].tag = "error"}

\* C29: a step of NSW_query.query in which a request raises leaves the
\* features accumulated by the loop and the seen object ids as they were and
\* appends one error entry to the diagnostics; the identifiers, the
\* expressions and the inputs stay as they were. (After the last expression the
\* step goes on to the cap, which may add its own entry.)
C29_FailureChangesDiagnosticsOnly ==
  [][RequestRaises =>
       /\ seen_ids' = seen_ids
       /\ (IF pc' = "done" THEN merged' ELSE all_arc') = all_arc
       /\ Len(debug') > Len(debug)
       /\ SubSeq(debug', 1, Len(debug)) = debug
       /\ debug'[Len(debug) + 1].tag = "error"
       /\ debug'[Len(debug) + 1].e = http'[Len(http')].outcome
       /\ Cardinality(ErrorEntries(debug')) = Cardinality(ErrorEntries(debug)) + 1
       /\ pc' # "done" => Len(debug') = Len(debug) + 1
       /\ UNCHANGED <<prog, raw_input, max_records, lotids, wheres, ids, raised>>
    ]_vars
\* a request has raised after an earlier expression had its records merged,
\* and the records and their ids are still there
C29_Witness ==
  /\ prog = "NSW"
  /\ \E i \in 1..Len(http) :
       /\ Failed(http[i])
       /\ \E j \in 1..(i - 1) : IsOkFetch(http[j]) /\ http[j].w < http[i].w
  /\ Accumulated # <<>>
  /\ seen_ids # {}

====
